---- MODULE Spec2Model ----
(***************************************************************************)
(* PayBySquare generator: validator, compliance engine, model adapter and  *)
(* round-trip verifier.                                                    *)
(*                                                                         *)
(* Representation.  A JavaScript string is a sequence of one-character     *)
(* strings.  An optional value is a sequence of length 0 (undefined) or 1  *)
(* (present).  A number is a record [k, neg, hi, lo]: k is "num" for a     *)
(* finite integer-valued number of magnitude hi * 10^9 + lo, or "nan",     *)
(* "inf", "str" (a value whose typeof is not 'number').                    *)
(***************************************************************************)
EXTENDS Integers, Sequences, FiniteSets, TLC

\* ------------------------------------------------------------------------
\* Characters and strings
\* ------------------------------------------------------------------------
Digits == {"0", "1", "2", "3", "4", "5", "6", "7", "8", "9"}

UpperSeq == <<"A", "B", "C", "D", "E", "F", "G", "H", "I", "J", "K", "L", "M",
              "N", "O", "P", "Q", "R", "S", "T", "U", "V", "W", "X", "Y", "Z">>

LowerSeq == <<"a", "b", "c", "d", "e", "f", "g", "h", "i", "j", "k", "l", "m",
              "n", "o", "p", "q", "r", "s", "t", "u", "v", "w", "x", "y", "z">>

Upper == {UpperSeq[i] : i \in 1..26}

Lower == {LowerSeq[i] : i \in 1..26}

Whitespace == {" "}

None == <<>>

Some(v) == <<v>>

\* null: not undefined, and no value either
Null == <<<<>>, <<>>>>

\* o !== undefined
IsDef(o) == o # None

\* o == null
Nullish(o) == o = None \/ o = Null

Rep(c, n) == [i \in 1..n |-> c]

AllIn(s, S) == \A i \in 1..Len(s) : s[i] \in S

\* String.prototype.toUpperCase, character by character
UpChar(c) == IF c \in Lower THEN UpperSeq[CHOOSE i \in 1..26 : LowerSeq[i] = c] ELSE c

toUpperCase(s) == [i \in 1..Len(s) |-> UpChar(s[i])]

\* s.replace(/\s/g, '')
stripWhitespace(s) == SelectSeq(s, LAMBDA c : c \notin Whitespace)

\* s.trim()
RECURSIVE trimLeft(_)
trimLeft(s) == IF s # <<>> /\ Head(s) \in Whitespace THEN trimLeft(Tail(s)) ELSE s

RECURSIVE trimRight(_)
trimRight(s) ==
    IF s # <<>> /\ s[Len(s)] \in Whitespace THEN trimRight(SubSeq(s, 1, Len(s) - 1)) ELSE s

trim(s) == trimRight(trimLeft(s))

\* JavaScript truthiness of an optional string: defined and not ''
Truthy(o) == Len(o) = 1 /\ o[1] # <<>>

\* /^\d{1,n}$/.test(s)
DigitString(s, n) == Len(s) >= 1 /\ Len(s) <= n /\ AllIn(s, Digits)

DigitSeq == <<"0", "1", "2", "3", "4", "5", "6", "7", "8", "9">>

DigitVal(c) == (CHOOSE i \in 1..10 : DigitSeq[i] = c) - 1

\* parseInt of a string of decimal digits
RECURSIVE parseInt(_)
parseInt(s) == IF s = <<>> THEN 0 ELSE 10 * parseInt(SubSeq(s, 1, Len(s) - 1)) + DigitVal(s[Len(s)])

\* ------------------------------------------------------------------------
\* Numbers (the JavaScript values an `amount` can hold)
\* ------------------------------------------------------------------------
Num(h, l) == [k |-> "num", neg |-> FALSE, hi |-> h, lo |-> l]

Neg(h, l) == [k |-> "num", neg |-> TRUE, hi |-> h, lo |-> l]

NaN == [k |-> "nan", neg |-> FALSE, hi |-> 0, lo |-> 0]

Infinity == [k |-> "inf", neg |-> FALSE, hi |-> 0, lo |-> 0]

NegInfinity == [k |-> "inf", neg |-> TRUE, hi |-> 0, lo |-> 0]

\* a value that is not of type 'number' (the string 'abc')
NotANumberType == [k |-> "str", neg |-> FALSE, hi |-> 0, lo |-> 0]

Zero == Num(0, 0)

\* typeof x === 'number'
IsNumberType(x) == x.k # "str"

\* x < 0
LessThanZero(x) ==
    \/ x.k = "num" /\ x.neg /\ (x.hi > 0 \/ x.lo > 0)
    \/ x.k = "inf" /\ x.neg

\* isFinite(x)
isFinite(x) == x.k = "num"

\* 999999999999999 = MaxAmountHi * 10^9 + MaxAmountLo
MaxAmountHi == 999999

MaxAmountLo == 999999999

\* x > 999999999999999
ExceedsMaximum(x) ==
    \/ x.k = "num" /\ ~x.neg /\ (x.hi > MaxAmountHi \/ (x.hi = MaxAmountHi /\ x.lo > MaxAmountLo))
    \/ x.k = "inf" /\ ~x.neg

\* ------------------------------------------------------------------------
\* Calendar arithmetic behind `new Date(date)` and the local-time getters
\* ------------------------------------------------------------------------
\* days since 1970-01-01 of the proleptic Gregorian date y-m-d
DaysFromCivil(y, m, d) ==
    LET yy  == IF m <= 2 THEN y - 1 ELSE y
        era == yy \div 400
        yoe == yy - era * 400
        mp  == IF m > 2 THEN m - 3 ELSE m + 9
        doy == (153 * mp + 2) \div 5 + d - 1
        doe == yoe * 365 + yoe \div 4 - yoe \div 100 + doy
    IN  era * 146097 + doe - 719468

\* <<year, month, day>> of a day number
CivilFromDays(z) ==
    LET zz  == z + 719468
        era == zz \div 146097
        doe == zz - era * 146097
        yoe == (doe - doe \div 1460 + doe \div 36524 - doe \div 146096) \div 365
        doy == doe - (365 * yoe + yoe \div 4 - yoe \div 100)
        mp  == (5 * doy + 2) \div 153
        d   == doy - (153 * mp + 2) \div 5 + 1
        m   == IF mp < 10 THEN mp + 3 ELSE mp - 9
        y   == yoe + era * 400
    IN  <<IF m <= 2 THEN y + 1 ELSE y, m, d>>

\* /^(\d{4})-(\d{2})-(\d{2})$/
MatchesDatePattern(s) ==
    /\ Len(s) = 10
    /\ s[5] = "-" /\ s[8] = "-"
    /\ \A i \in {1, 2, 3, 4, 6, 7, 9, 10} : s[i] \in Digits

\* new Date('YYYY-MM-DD'): midnight UTC of the date, as a day number in a
\* sequence of length 1; the empty sequence is the Invalid Date (NaN).  The
\* engine takes any day 1..31 and lets it roll over into the next month.
NewDate(s) ==
    LET y == parseInt(SubSeq(s, 1, 4))
        m == parseInt(SubSeq(s, 6, 7))
        d == parseInt(SubSeq(s, 9, 10))
    IN  IF m \in 1..12 /\ d \in 1..31 THEN <<DaysFromCivil(y, m, 1) + d - 1>> ELSE <<>>

\* <<getFullYear(), getMonth() + 1, getDate()>> of midnight UTC of day number
\* z on a host whose local time is UTC + tz hours
LocalFields(z, tz) == CivilFromDays(z + (tz \div 24))

\* ------------------------------------------------------------------------
\* Validator (validator.ts)
\* ------------------------------------------------------------------------
Alnum == Upper \cup Digits

\* validator.ts isValidIBAN: /^[A-Z]{2}[0-9]{2}[A-Z0-9]{11,30}$/ on the
\* whitespace-stripped IBAN
isValidIBANFormat(iban) ==
    LET cleaned == stripWhitespace(iban)
    IN  /\ Len(cleaned) >= 15 /\ Len(cleaned) <= 34
        /\ cleaned[1] \in Upper /\ cleaned[2] \in Upper
        /\ cleaned[3] \in Digits /\ cleaned[4] \in Digits
        /\ \A i \in 5..Len(cleaned) : cleaned[i] \in Alnum

\* isValidCurrencyCode testing the code as given
isValidCurrencyCodeAsGiven(code) == Len(code) = 3 /\ AllIn(code, Upper)

\* /^[A-Z]{3}$/.test(code.toUpperCase())
isValidCurrencyCode(code) == Len(code) = 3 /\ AllIn(toUpperCase(code), Upper)

isValidISODate(date, tz) ==
    IF ~MatchesDatePattern(date) THEN FALSE
    ELSE LET dateObj == NewDate(date)
         IN  /\ dateObj # <<>>
             /\ LocalFields(dateObj[1], tz) =
                    <<parseInt(SubSeq(date, 1, 4)), parseInt(SubSeq(date, 6, 7)),
                      parseInt(SubSeq(date, 9, 10))>>

Accepted == [kind |-> "ok", message |-> "", detail |-> None, cause |-> None]

ValidationError(msg) ==
    [kind |-> "ValidationError", message |-> msg, detail |-> None, cause |-> None]

StreetOf(input) == IF IsDef(input.beneficiaryAddress) THEN input.beneficiaryAddress[1].street ELSE None

CityOf(input) == IF IsDef(input.beneficiaryAddress) THEN input.beneficiaryAddress[1].city ELSE None

\* "Required fields"
validateRequired(input) ==
    IF ~(IsDef(input.iban) /\ trim(input.iban[1]) # <<>>)
    THEN ValidationError("IBAN is required")
    ELSE IF ~(IsDef(input.beneficiaryName) /\ trim(input.beneficiaryName[1]) # <<>>)
    THEN ValidationError("Beneficiary name is required")
    ELSE Accepted

\* "IBAN format validation"
validateIbanFormat(input) ==
    IF ~isValidIBANFormat(input.iban[1]) THEN ValidationError("Invalid IBAN format")
    ELSE Accepted

\* "Amount validation"
validateAmount(input) ==
    IF IsDef(input.amount)
    THEN IF ~IsNumberType(input.amount[1]) \/ LessThanZero(input.amount[1])
         THEN ValidationError("Amount must be a positive number")
         ELSE IF ~isFinite(input.amount[1])
         THEN ValidationError("Amount must be a finite number")
         ELSE Accepted
    ELSE Accepted

\* "Currency validation"; the message ends with the rejected code
validateCurrency(input) ==
    IF Truthy(input.currency) /\ ~isValidCurrencyCode(input.currency[1])
    THEN [kind |-> "ValidationError", message |-> "Invalid currency code: ",
          detail |-> input.currency, cause |-> None]
    ELSE Accepted

\* validateSymbols without the rule on the constant symbol
validateSymbolsNoConstant(input) ==
    IF Truthy(input.variableSymbol) /\ ~DigitString(input.variableSymbol[1], 10)
    THEN ValidationError("Variable symbol must be 1-10 digits")
    ELSE IF Truthy(input.specificSymbol) /\ ~DigitString(input.specificSymbol[1], 10)
    THEN ValidationError("Specific symbol must be 1-10 digits")
    ELSE Accepted

\* "Symbol validations"
validateSymbols(input) ==
    IF Truthy(input.variableSymbol) /\ ~DigitString(input.variableSymbol[1], 10)
    THEN ValidationError("Variable symbol must be 1-10 digits")
    ELSE IF Truthy(input.constantSymbol)
            /\ ~DigitString(input.constantSymbol[1], 4)
    THEN ValidationError("Constant symbol must be 1-4 digits")
    ELSE IF Truthy(input.specificSymbol) /\ ~DigitString(input.specificSymbol[1], 10)
    THEN ValidationError("Specific symbol must be 1-10 digits")
    ELSE Accepted

\* validateLengths with the name checked before the note
validateLengthsNameFirst(input) ==
    IF Len(input.beneficiaryName[1]) > 70
    THEN ValidationError("Beneficiary name cannot exceed 70 characters")
    ELSE IF Truthy(input.paymentNote) /\ Len(input.paymentNote[1]) > 140
    THEN ValidationError("Payment note cannot exceed 140 characters")
    ELSE IF Truthy(StreetOf(input)) /\ Len(StreetOf(input)[1]) > 70
    THEN ValidationError("Beneficiary street cannot exceed 70 characters")
    ELSE IF Truthy(CityOf(input)) /\ Len(CityOf(input)[1]) > 70
    THEN ValidationError("Beneficiary city cannot exceed 70 characters")
    ELSE Accepted

\* validateLengths with >= for >
validateLengthsOffByOne(input) ==
    IF Truthy(input.paymentNote) /\ Len(input.paymentNote[1]) >= 140
    THEN ValidationError("Payment note cannot exceed 140 characters")
    ELSE IF Len(input.beneficiaryName[1]) >= 70
    THEN ValidationError("Beneficiary name cannot exceed 70 characters")
    ELSE IF Truthy(StreetOf(input)) /\ Len(StreetOf(input)[1]) >= 70
    THEN ValidationError("Beneficiary street cannot exceed 70 characters")
    ELSE IF Truthy(CityOf(input)) /\ Len(CityOf(input)[1]) >= 70
    THEN ValidationError("Beneficiary city cannot exceed 70 characters")
    ELSE Accepted

\* "Length validations"
validateLengths(input) ==
    IF Truthy(input.paymentNote) /\ Len(input.paymentNote[1]) > 140
    THEN ValidationError("Payment note cannot exceed 140 characters")
    ELSE IF Len(input.beneficiaryName[1]) > 70
    THEN ValidationError("Beneficiary name cannot exceed 70 characters")
    ELSE IF Truthy(StreetOf(input)) /\ Len(StreetOf(input)[1]) > 70
    THEN ValidationError("Beneficiary street cannot exceed 70 characters")
    ELSE IF Truthy(CityOf(input)) /\ Len(CityOf(input)[1]) > 70
    THEN ValidationError("Beneficiary city cannot exceed 70 characters")
    ELSE Accepted

\* "Date validation"
validateDate(input, tz) ==
    IF Truthy(input.dueDate) /\ ~isValidISODate(input.dueDate[1], tz)
    THEN ValidationError("Due date must be in ISO 8601 format (YYYY-MM-DD)")
    ELSE Accepted

\* the first error raised, the sections running in the order of the code
validateInput(input, tz) ==
    LET required == validateRequired(input)
        format   == validateIbanFormat(input)
        amount   == validateAmount(input)
        currency == validateCurrency(input)
        symbols  == validateSymbols(input)
        lengths  == validateLengths(input)
    IN  IF required.kind # "ok" THEN required
        ELSE IF format.kind # "ok" THEN format
        ELSE IF amount.kind # "ok" THEN amount
        ELSE IF currency.kind # "ok" THEN currency
        ELSE IF symbols.kind # "ok" THEN symbols
        ELSE IF lengths.kind # "ok" THEN lengths
        ELSE validateDate(input, tz)

\* ------------------------------------------------------------------------
\* Library predicates used by the compliance engine (ibantools, bysquare)
\* ------------------------------------------------------------------------
\* ibantools country table, restricted to the countries of the test data:
\* total IBAN length; the BBAN of each is all digits
CountryChars == [c \in {<<"S", "K">>, <<"C", "Z">>, <<"D", "E">>} |->
                    IF c = <<"D", "E">> THEN 22 ELSE 24]

LetterVal(c) == 9 + (CHOOSE i \in 1..26 : UpperSeq[i] = c)

\* remainder modulo 97 of the number spelled by s (letters A..Z count 10..35)
RECURSIVE Mod97(_, _)
Mod97(s, acc) ==
    IF s = <<>> THEN acc
    ELSE IF Head(s) \in Digits
         THEN Mod97(Tail(s), (acc * 10 + DigitVal(Head(s))) % 97)
         ELSE Mod97(Tail(s), (acc * 100 + LetterVal(Head(s))) % 97)

\* ibantools isValidIBAN: known country, exact length (no whitespace is
\* removed), numeric check digits, BBAN format, mod-97 checksum
isValidIBAN(iban) ==
    /\ Len(iban) >= 4
    /\ SubSeq(iban, 1, 2) \in DOMAIN CountryChars
    /\ Len(iban) = CountryChars[SubSeq(iban, 1, 2)]
    /\ \A i \in 3..Len(iban) : iban[i] \in Digits
    /\ Mod97(SubSeq(iban, 5, Len(iban)) \o SubSeq(iban, 1, 4), 0) = 1

\* ibantools isValidBIC: /^[a-zA-Z]{6}[a-zA-Z0-9]{2}([a-zA-Z0-9]{3})?$/ and a
\* known country code at positions 5-6
isValidBIC(bic) ==
    /\ Len(bic) \in {8, 11}
    /\ \A i \in 1..6 : bic[i] \in Upper \cup Lower
    /\ \A i \in 7..Len(bic) : bic[i] \in Upper \cup Lower \cup Digits
    /\ toUpperCase(SubSeq(bic, 5, 6)) \in DOMAIN CountryChars

\* keys of the bysquare CurrencyCode table, restricted to the codes of the
\* test data
CurrencyCode == {<<"E", "U", "R">>, <<"U", "S", "D">>, <<"C", "Z", "K">>, <<"G", "B", "P">>}

\* ------------------------------------------------------------------------
\* Compliance engine (compliance.ts)
\* ------------------------------------------------------------------------
Issue(t, f, m, sev) == [type |-> t, field |-> f, message |-> m, severity |-> sev]

Opt(cond, issue) == IF cond THEN <<issue>> ELSE <<>>

\* the checksum issue given the severity of the length issue
IbanChecksumIssueMajor ==
    Issue("error", "iban", "IBAN checksum validation failed (mod-97 algorithm)", "major")

IbanChecksumIssue ==
    Issue("error", "iban", "IBAN checksum validation failed (mod-97 algorithm)", "critical")

\* the issue, or the empty sequence for null
validateIBANChecksum(iban) == Opt(~isValidIBAN(iban), IbanChecksumIssue)

validateFieldFormats(input) ==
    LET ibanCleaned == stripWhitespace(input.iban[1])
    IN  Opt(Len(ibanCleaned) < 15 \/ Len(ibanCleaned) > 34,
            Issue("error", "iban", "IBAN length must be between 15 and 34 characters", "major"))
     \o Opt(Len(input.beneficiaryName[1]) > 70,
            Issue("error", "beneficiaryName", "Exceeds maximum length of 70 characters", "major"))
     \o Opt(Truthy(input.variableSymbol) /\ ~DigitString(input.variableSymbol[1], 10),
            Issue("error", "variableSymbol", "Must contain only digits (1-10)", "major"))
     \o Opt(Truthy(input.constantSymbol)
              /\ ~DigitString(input.constantSymbol[1], 4),
            Issue("error", "constantSymbol", "Must contain only digits (1-4)", "major"))
     \o Opt(Truthy(input.specificSymbol) /\ ~DigitString(input.specificSymbol[1], 10),
            Issue("error", "specificSymbol", "Must contain only digits (1-10)", "major"))
     \o Opt(Truthy(input.paymentNote) /\ Len(input.paymentNote[1]) > 140,
            Issue("error", "paymentNote", "Exceeds maximum length of 140 characters", "major"))
     \o Opt(Truthy(StreetOf(input)) /\ Len(StreetOf(input)[1]) > 70,
            Issue("error", "beneficiaryAddress.street",
                  "Exceeds maximum length of 70 characters", "minor"))
     \o Opt(Truthy(CityOf(input)) /\ Len(CityOf(input)[1]) > 70,
            Issue("error", "beneficiaryAddress.city",
                  "Exceeds maximum length of 70 characters", "minor"))
     \o Opt(Truthy(input.dueDate) /\ ~MatchesDatePattern(input.dueDate[1]),
            Issue("error", "dueDate", "Must be in ISO 8601 format (YYYY-MM-DD)", "major"))

\* the currency issue classified as an error
UnknownCurrencyAsError ==
    Issue("error", "currency", "Currency code not in ISO 4217 standard", "minor")

UnknownCurrencyIssue ==
    Issue("warning", "currency", "Currency code not in ISO 4217 standard", "minor")

validateBankingStandards(input) ==
       Opt(Truthy(input.swift) /\ ~isValidBIC(input.swift[1]),
            Issue("error", "swift", "Invalid BIC/SWIFT code format", "major"))
    \o Opt(Truthy(input.currency) /\ toUpperCase(input.currency[1]) \notin CurrencyCode,
            UnknownCurrencyIssue)
    \o Opt(IsDef(input.amount) /\ LessThanZero(input.amount[1]),
            Issue("error", "amount", "Amount must be positive", "critical"))
    \o Opt(IsDef(input.amount) /\ ExceedsMaximum(input.amount[1]),
            Issue("error", "amount",
                  "Amount exceeds PayBySquare maximum (999,999,999,999,999)", "major"))
    \o Opt(IsDef(input.amount) /\ ~isFinite(input.amount[1]),
            Issue("error", "amount", "Amount must be a finite number", "critical"))

\* IsError taking a warning for an error
IsErrorOrWarning(i) == i.type \in {"error", "warning"}

IsError(i) == i.type = "error"

IsWarning(i) == i.type # "error"

\* ComplianceReport with isCompliant requiring that there is no issue at all
ComplianceReportNoIssues(ibanIssue, fieldIssues, bankingIssues) ==
    LET errors   == ibanIssue \o SelectSeq(fieldIssues, IsError) \o SelectSeq(bankingIssues, IsError)
        warnings == SelectSeq(fieldIssues, IsWarning) \o SelectSeq(bankingIssues, IsWarning)
    IN  [isCompliant |-> Len(errors) + Len(warnings) = 0,
         errors      |-> errors,
         warnings    |-> warnings,
         details     |-> [ibanValid             |-> ibanIssue = <<>>,
                          fieldsValid           |-> Len(SelectSeq(fieldIssues, IsError)) = 0,
                          bankingStandardsValid |-> Len(SelectSeq(bankingIssues, IsError)) = 0,
                          totalIssues           |-> Len(errors) + Len(warnings)]]

\* ComplianceReport with the group flags counting warnings as well
ComplianceReportAnyIssue(ibanIssue, fieldIssues, bankingIssues) ==
    LET errors   == ibanIssue \o SelectSeq(fieldIssues, IsError) \o SelectSeq(bankingIssues, IsError)
        warnings == SelectSeq(fieldIssues, IsWarning) \o SelectSeq(bankingIssues, IsWarning)
    IN  [isCompliant |-> Len(errors) = 0,
         errors      |-> errors,
         warnings    |-> warnings,
         details     |-> [ibanValid             |-> ibanIssue = <<>>,
                          fieldsValid           |-> Len(fieldIssues) = 0,
                          bankingStandardsValid |-> Len(bankingIssues) = 0,
                          totalIssues           |-> Len(errors) + Len(warnings)]]

\* ComplianceReport counting a failed checksum as a field-format error too
ComplianceReportIbanInFields(ibanIssue, fieldIssues, bankingIssues) ==
    LET errors   == ibanIssue \o SelectSeq(fieldIssues, IsError) \o SelectSeq(bankingIssues, IsError)
        warnings == SelectSeq(fieldIssues, IsWarning) \o SelectSeq(bankingIssues, IsWarning)
    IN  [isCompliant |-> Len(errors) = 0,
         errors      |-> errors,
         warnings    |-> warnings,
         details     |-> [ibanValid             |-> ibanIssue = <<>>,
                          fieldsValid           |-> Len(ibanIssue \o SelectSeq(fieldIssues, IsError)) = 0,
                          bankingStandardsValid |-> Len(SelectSeq(bankingIssues, IsError)) = 0,
                          totalIssues           |-> Len(errors) + Len(warnings)]]

\* the report that checkCompliance builds from the issues of its three steps
ComplianceReport(ibanIssue, fieldIssues, bankingIssues) ==
    LET errors   == ibanIssue \o SelectSeq(fieldIssues, IsError) \o SelectSeq(bankingIssues, IsError)
        warnings == SelectSeq(fieldIssues, IsWarning) \o SelectSeq(bankingIssues, IsWarning)
    IN  [isCompliant |-> Len(errors) = 0,
         errors      |-> errors,
         warnings    |-> warnings,
         details     |-> [ibanValid             |-> ibanIssue = <<>>,
                          fieldsValid           |-> Len(SelectSeq(fieldIssues, IsError)) = 0,
                          bankingStandardsValid |-> Len(SelectSeq(bankingIssues, IsError)) = 0,
                          totalIssues           |-> Len(errors) + Len(warnings)]]

\* checkCompliance stopping at a failed checksum
checkComplianceShortCircuit(input) ==
    IF validateIBANChecksum(input.iban[1]) # <<>>
    THEN ComplianceReport(validateIBANChecksum(input.iban[1]), <<>>, <<>>)
    ELSE ComplianceReport(<<>>, validateFieldFormats(input), validateBankingStandards(input))

checkCompliance(input) ==
    ComplianceReport(validateIBANChecksum(input.iban[1]), validateFieldFormats(input),
                     validateBankingStandards(input))

\* isCompliant without the checksum step
isCompliantNoChecksum(input) ==
    LET issues == validateFieldFormats(input) \o validateBankingStandards(input)
    IN  Len(SelectSeq(issues, IsError)) = 0

isCompliant(input) ==
    IF ~isValidIBAN(input.iban[1]) THEN FALSE
    ELSE LET issues == validateFieldFormats(input) \o validateBankingStandards(input)
         IN  Len(SelectSeq(issues, IsError)) = 0

\* ------------------------------------------------------------------------
\* Model adapter, encode direction (generator.ts)
\* ------------------------------------------------------------------------
EUR == <<"E", "U", "R">>

\* both branches return the upper-cased code
parseCurrencyCode(currency) ==
    LET normalized == toUpperCase(currency)
    IN  IF normalized \in CurrencyCode THEN normalized ELSE normalized

\* cond && { key: value }
IfTruthy(o) == IF Truthy(o) THEN o ELSE None

\* transformToDataModel emitting a currency that comes without an amount
transformToDataModelCurrencyAlone(input) ==
    LET bankAccounts == <<[iban |-> Some(stripWhitespace(input.iban[1])),
                           bic  |-> IfTruthy(input.swift)]>>
        beneficiary ==
            IF Truthy(input.beneficiaryName) \/ IsDef(input.beneficiaryAddress)
            THEN Some([name   |-> IfTruthy(input.beneficiaryName),
                       street |-> IfTruthy(StreetOf(input)),
                       city   |-> IfTruthy(CityOf(input))])
            ELSE None
        payment ==
            [currencyCode |-> IF IsDef(input.amount) \/ Truthy(input.currency)
                              THEN Some(parseCurrencyCode(IF Nullish(input.currency)
                                                          THEN EUR ELSE input.currency[1]))
                              ELSE None,
             bankAccounts |-> bankAccounts,
             amount |-> input.amount,
             variableSymbol |-> IfTruthy(input.variableSymbol),
             constantSymbol |-> IfTruthy(input.constantSymbol),
             specificSymbol |-> IfTruthy(input.specificSymbol),
             paymentNote |-> IfTruthy(input.paymentNote),
             beneficiary |-> beneficiary,
             paymentDueDate |-> IfTruthy(input.dueDate),
             originatorsReferenceInformation |-> IfTruthy(input.originatorReference)]
    IN  [payments |-> <<payment>>]

\* input.currency ?? 'EUR' takes the default for undefined and for null
transformToDataModel(input) ==
    LET bankAccounts == <<[iban |-> Some(stripWhitespace(input.iban[1])),
                           bic  |-> IfTruthy(input.swift)]>>
        beneficiary ==
            IF Truthy(input.beneficiaryName) \/ IsDef(input.beneficiaryAddress)
            THEN Some([name   |-> IfTruthy(input.beneficiaryName),
                       street |-> IfTruthy(StreetOf(input)),
                       city   |-> IfTruthy(CityOf(input))])
            ELSE None
        payment ==
            [currencyCode |-> IF IsDef(input.amount)
                              THEN Some(parseCurrencyCode(IF Nullish(input.currency)
                                                          THEN EUR ELSE input.currency[1]))
                              ELSE None,
             bankAccounts |-> bankAccounts,
             amount |-> input.amount,
             variableSymbol |-> IfTruthy(input.variableSymbol),
             constantSymbol |-> IfTruthy(input.constantSymbol),
             specificSymbol |-> IfTruthy(input.specificSymbol),
             paymentNote |-> IfTruthy(input.paymentNote),
             beneficiary |-> beneficiary,
             paymentDueDate |-> IfTruthy(input.dueDate),
             originatorsReferenceInformation |-> IfTruthy(input.originatorReference)]
    IN  [payments |-> <<payment>>]

\* ------------------------------------------------------------------------
\* External collaborators: codec (bysquare), renderer (qrcode), detector
\* (jimp + jsQR)
\* ------------------------------------------------------------------------
\* the accented letters a-acute and c-caron, spelled in ASCII, and their base
\* letters
Accented == [c \in {"a'", "c^"} |-> IF c = "a'" THEN "a" ELSE "c"]

\* removal of diacritics, applied by the codec when called with deburr
Deburr(s) == [i \in 1..Len(s) |-> IF s[i] \in DOMAIN Accented THEN Accented[s[i]] ELSE s[i]]

\* a text field on the wire: an absent field and an empty one are the same
WireText(o) == IF IsDef(o) THEN o[1] ELSE <<>>

\* a text field read back from the wire
FromWire(s) == IF s = <<>> THEN None ELSE Some(s)

\* bysquare encode(dataModel, {deburr}): the wire string, here the tuple of
\* its fields
encode(dataModel, deburr) ==
    LET p  == dataModel.payments[1]
        b  == IF IsDef(p.beneficiary) THEN p.beneficiary[1]
              ELSE [name |-> None, street |-> None, city |-> None]
        tx(o) == IF deburr THEN Deburr(WireText(o)) ELSE WireText(o)
    IN  [payBySquare |-> TRUE,
         payments |-> <<[currencyCode |-> WireText(p.currencyCode),
                         amount |-> p.amount,
                         bankAccounts |-> [i \in 1..Len(p.bankAccounts) |->
                                              [iban |-> WireText(p.bankAccounts[i].iban),
                                               bic  |-> WireText(p.bankAccounts[i].bic)]],
                         variableSymbol |-> WireText(p.variableSymbol),
                         constantSymbol |-> WireText(p.constantSymbol),
                         specificSymbol |-> WireText(p.specificSymbol),
                         paymentNote |-> tx(p.paymentNote),
                         name |-> tx(b.name), street |-> tx(b.street), city |-> tx(b.city),
                         paymentDueDate |-> WireText(p.paymentDueDate),
                         originatorsReferenceInformation |->
                             WireText(p.originatorsReferenceInformation)]>>]

\* bysquare decode(qrString) of a well-formed wire string: a payment without
\* amount comes back with amount 0 and currencyCode ''
bysquareDecode(qrString) ==
    [payments |-> [i \in 1..Len(qrString.payments) |->
        LET w == qrString.payments[i]
        IN  [currencyCode |-> Some(w.currencyCode),
             amount |-> IF IsDef(w.amount) THEN w.amount ELSE Some(Zero),
             bankAccounts |-> [j \in 1..Len(w.bankAccounts) |->
                                  [iban |-> FromWire(w.bankAccounts[j].iban),
                                   bic  |-> FromWire(w.bankAccounts[j].bic)]],
             variableSymbol |-> FromWire(w.variableSymbol),
             constantSymbol |-> FromWire(w.constantSymbol),
             specificSymbol |-> FromWire(w.specificSymbol),
             paymentNote |-> FromWire(w.paymentNote),
             beneficiary |-> Some([name |-> FromWire(w.name), street |-> FromWire(w.street),
                                   city |-> FromWire(w.city)]),
             paymentDueDate |-> FromWire(w.paymentDueDate),
             originatorsReferenceInformation |-> FromWire(w.originatorsReferenceInformation)]]]

\* QRCode.toBuffer(qrString, ...): a readable PNG holding the QR symbol
toBuffer(qrString) == [readable |-> TRUE, qr |-> Some(qrString)]

\* a wire string that is not PayBySquare data
GarbageWire == [payBySquare |-> FALSE, payments |-> <<>>]

NotAPng == [readable |-> FALSE, qr |-> None]

BlankPng == [readable |-> TRUE, qr |-> None]

\* ------------------------------------------------------------------------
\* Generation pipeline (generator.ts)
\* ------------------------------------------------------------------------
\* new EncodingError(msg, {cause}) and new GenerationError(msg, {cause})
Failure(kind, msg, cause) ==
    [kind |-> kind, message |-> msg, detail |-> None, cause |-> Some(cause)]

Faults == {"none", "codec", "renderer"}

\* what a failing collaborator throws
Thrown(by) == [kind |-> "Error", message |-> by]

\* generatePayBySquare with one catch block around the codec and the
\* renderer
generatePayBySquareOneCatch(input, tz, fault) ==
    LET v         == validateInput(input, tz)
        dataModel == transformToDataModel(input)
        qrString  == encode(dataModel, TRUE)
    IN  IF v.kind # "ok"
        THEN [result |-> v, encoded |-> None, calls |-> <<"validateInput">>, buffer |-> None]
        ELSE IF fault = "codec"
        THEN [result |-> Failure("GenerationError", "Failed to generate QR code PNG",
                                 Thrown("encode")),
              encoded |-> Some(dataModel),
              calls |-> <<"validateInput", "transformToDataModel", "encode">>,
              buffer |-> None]
        ELSE IF fault = "renderer"
        THEN [result |-> Failure("GenerationError", "Failed to generate QR code PNG",
                                 Thrown("QRCode.toBuffer")),
              encoded |-> Some(dataModel),
              calls |-> <<"validateInput", "transformToDataModel", "encode", "QRCode.toBuffer">>,
              buffer |-> None]
        ELSE [result |-> Accepted, encoded |-> Some(dataModel),
              calls |-> <<"validateInput", "transformToDataModel", "encode", "QRCode.toBuffer">>,
              buffer |-> Some(toBuffer(qrString))]

\* Outcome of generatePayBySquare(input) with default options on a host in
\* time zone tz, the collaborators failing as `fault` says: `result` is the
\* error raised or [kind |-> "ok"], `encoded` the data model handed to the
\* codec (None when the codec was not called), `calls` the steps taken in
\* order, `buffer` the PNG returned.
generatePayBySquare(input, tz, fault) ==
    LET v         == validateInput(input, tz)
        dataModel == transformToDataModel(input)
        qrString  == encode(dataModel, TRUE)
    IN  IF v.kind # "ok"
        THEN [result |-> v, encoded |-> None, calls |-> <<"validateInput">>, buffer |-> None]
        ELSE IF fault = "codec"
        THEN [result |-> Failure("EncodingError", "Failed to encode payment data",
                                 Thrown("encode")),
              encoded |-> Some(dataModel),
              calls |-> <<"validateInput", "transformToDataModel", "encode">>,
              buffer |-> None]
        ELSE IF fault = "renderer"
        THEN [result |-> Failure("GenerationError", "Failed to generate QR code PNG",
                                 Thrown("QRCode.toBuffer")),
              encoded |-> Some(dataModel),
              calls |-> <<"validateInput", "transformToDataModel", "encode", "QRCode.toBuffer">>,
              buffer |-> None]
        ELSE [result |-> Accepted, encoded |-> Some(dataModel),
              calls |-> <<"validateInput", "transformToDataModel", "encode", "QRCode.toBuffer">>,
              buffer |-> Some(toBuffer(qrString))]

\* ------------------------------------------------------------------------
\* Decoding pipeline and model adapter, decode direction (decoder.ts)
\* ------------------------------------------------------------------------
\* new DecodingError(msg) and new DecodingError(msg, {cause})
DecodingError(msg, cause) ==
    [kind |-> "DecodingError", message |-> msg, value |-> None, cause |-> cause]

Decoded(record) == [kind |-> "ok", message |-> "", value |-> Some(record), cause |-> None]

\* the detector finding no code in an image that holds one
DecodeFaults == {"none", "detector"}

\* the try block of extractQRString: `result` is the string returned or
\* what was thrown, `calls` the collaborators called
extractQRStringTry(buffer, fault) ==
    IF ~buffer.readable
    THEN [result |-> Thrown("Jimp.read"), calls |-> <<"Jimp.read">>]
    ELSE IF buffer.qr = None \/ fault = "detector"
    THEN [result |-> DecodingError("No QR code found in image", None),
          calls |-> <<"Jimp.read", "jsQR">>]
    ELSE [result |-> Decoded(buffer.qr[1]), calls |-> <<"Jimp.read", "jsQR">>]

\* extractQRString with a catch block that wraps whatever was thrown
extractQRStringWrapAll(buffer, fault) ==
    LET t == extractQRStringTry(buffer, fault)
    IN  IF t.result.kind = "ok" THEN t
        ELSE [result |-> DecodingError("Failed to read image or extract QR code",
                                       Some(t.result)),
              calls |-> t.calls]

\* the try block and its catch: a DecodingError passes, anything else is
\* wrapped
extractQRString(buffer, fault) ==
    LET t == extractQRStringTry(buffer, fault)
    IN  IF t.result.kind = "ok" THEN t
        ELSE IF t.result.kind = "DecodingError" THEN t
        ELSE [result |-> DecodingError("Failed to read image or extract QR code",
                                       Some(t.result)),
              calls |-> t.calls]

NoAddress == None

\* transformFromDataModel reading the BIC from the iban property of the account
transformFromDataModelBicFromIban(data) ==
    IF Len(data.payments) = 0 THEN DecodingError("No payment data found in QR code", None)
    ELSE LET payment == data.payments[1]
         IN  IF Len(payment.bankAccounts) = 0 \/ ~Truthy(payment.bankAccounts[1].iban)
             THEN DecodingError("No IBAN found in payment data", None)
             ELSE LET bankAccount == payment.bankAccounts[1]
                      ben == IF IsDef(payment.beneficiary) THEN payment.beneficiary[1]
                             ELSE [name |-> None, street |-> None, city |-> None]
                  IN  Decoded(
                        [iban |-> bankAccount.iban,
                         beneficiaryName |-> IF Truthy(ben.name) THEN ben.name ELSE Some(<<>>),
                         amount |-> IF Truthy(payment.currencyCode) THEN payment.amount ELSE None,
                         currency |-> IfTruthy(payment.currencyCode),
                         variableSymbol |-> IfTruthy(payment.variableSymbol),
                         constantSymbol |-> IfTruthy(payment.constantSymbol),
                         specificSymbol |-> IfTruthy(payment.specificSymbol),
                         paymentNote |-> IfTruthy(payment.paymentNote),
                         dueDate |-> IfTruthy(payment.paymentDueDate),
                         swift |-> IfTruthy(bankAccount.iban),
                         originatorReference |-> IfTruthy(payment.originatorsReferenceInformation),
                         beneficiaryAddress |->
                             IF Truthy(ben.street) \/ Truthy(ben.city)
                             THEN Some([street |-> IfTruthy(ben.street),
                                        city |-> IfTruthy(ben.city)])
                             ELSE NoAddress])

\* transformFromDataModel without the test of the IBAN
transformFromDataModelAnyAccount(data) ==
    IF Len(data.payments) = 0 THEN DecodingError("No payment data found in QR code", None)
    ELSE LET payment == data.payments[1]
             bankAccount == IF Len(payment.bankAccounts) = 0
                            THEN [iban |-> None, bic |-> None]
                            ELSE payment.bankAccounts[1]
             ben == IF IsDef(payment.beneficiary) THEN payment.beneficiary[1]
                    ELSE [name |-> None, street |-> None, city |-> None]
         IN  Decoded(
               [iban |-> bankAccount.iban,
                beneficiaryName |-> IF Truthy(ben.name) THEN ben.name ELSE Some(<<>>),
                amount |-> IF Truthy(payment.currencyCode) THEN payment.amount ELSE None,
                currency |-> IfTruthy(payment.currencyCode),
                variableSymbol |-> IfTruthy(payment.variableSymbol),
                constantSymbol |-> IfTruthy(payment.constantSymbol),
                specificSymbol |-> IfTruthy(payment.specificSymbol),
                paymentNote |-> IfTruthy(payment.paymentNote),
                dueDate |-> IfTruthy(payment.paymentDueDate),
                swift |-> IfTruthy(bankAccount.bic),
                originatorReference |-> IfTruthy(payment.originatorsReferenceInformation),
                beneficiaryAddress |->
                    IF Truthy(ben.street) \/ Truthy(ben.city)
                    THEN Some([street |-> IfTruthy(ben.street),
                               city |-> IfTruthy(ben.city)])
                    ELSE NoAddress])

transformFromDataModel(data) ==
    IF Len(data.payments) = 0 THEN DecodingError("No payment data found in QR code", None)
    ELSE LET payment == data.payments[1]
         IN  IF Len(payment.bankAccounts) = 0 \/ ~Truthy(payment.bankAccounts[1].iban)
             THEN DecodingError("No IBAN found in payment data", None)
             ELSE LET bankAccount == payment.bankAccounts[1]
                      ben == IF IsDef(payment.beneficiary) THEN payment.beneficiary[1]
                             ELSE [name |-> None, street |-> None, city |-> None]
                  IN  Decoded(
                        [iban |-> bankAccount.iban,
                         beneficiaryName |-> IF Truthy(ben.name) THEN ben.name ELSE Some(<<>>),
                         amount |-> IF Truthy(payment.currencyCode) THEN payment.amount ELSE None,
                         currency |-> IfTruthy(payment.currencyCode),
                         variableSymbol |-> IfTruthy(payment.variableSymbol),
                         constantSymbol |-> IfTruthy(payment.constantSymbol),
                         specificSymbol |-> IfTruthy(payment.specificSymbol),
                         paymentNote |-> IfTruthy(payment.paymentNote),
                         dueDate |-> IfTruthy(payment.paymentDueDate),
                         swift |-> IfTruthy(bankAccount.bic),
                         originatorReference |-> IfTruthy(payment.originatorsReferenceInformation),
                         beneficiaryAddress |->
                             IF Truthy(ben.street) \/ Truthy(ben.city)
                             THEN Some([street |-> IfTruthy(ben.street),
                                        city |-> IfTruthy(ben.city)])
                             ELSE NoAddress])

\* `result` is the record returned or the DecodingError raised, `calls` the
\* steps taken in order
decodePayBySquare(buffer, fault) ==
    LET q == extractQRString(buffer, fault)
    IN  IF q.result.kind # "ok" THEN q
        ELSE IF ~q.result.value[1].payBySquare
        THEN [result |-> DecodingError("Failed to decode PayBySquare QR string",
                                       Some(Thrown("bysquareDecode"))),
              calls |-> q.calls \o <<"bysquareDecode">>]
        ELSE [result |-> transformFromDataModel(bysquareDecode(q.result.value[1])),
              calls |-> q.calls \o <<"bysquareDecode", "transformFromDataModel">>]

\* ------------------------------------------------------------------------
\* Round-trip verifier (compliance.ts)
\* ------------------------------------------------------------------------
ScalarFields == <<"iban", "beneficiaryName", "amount", "currency", "variableSymbol",
                  "constantSymbol", "specificSymbol", "paymentNote", "dueDate", "swift",
                  "originatorReference">>

Difference(f, o, d) == [field |-> f, original |-> o, decoded |-> d]

\* compareField taking an undefined value on either side as equal
compareFieldLenient(field, original, decodedValue) ==
    IF Nullish(original) \/ Nullish(decodedValue) THEN <<>>
    ELSE IF original # decodedValue THEN <<Difference(field, original, decodedValue)>>
    ELSE <<>>

\* compareField: nothing when both are undefined or null, a difference when
\* the two are not strictly equal
compareField(field, original, decodedValue) ==
    IF Nullish(original) /\ Nullish(decodedValue) THEN <<>>
    ELSE IF original # decodedValue THEN <<Difference(field, original, decodedValue)>>
    ELSE <<>>

RECURSIVE compareScalars(_, _, _)
compareScalars(i, input, decoded) ==
    IF i > Len(ScalarFields) THEN <<>>
    ELSE compareField(ScalarFields[i], input[ScalarFields[i]], decoded[ScalarFields[i]])
            \o compareScalars(i + 1, input, decoded)

compareAddress(input, decoded) ==
    IF IsDef(input.beneficiaryAddress) \/ IsDef(decoded.beneficiaryAddress)
    THEN (IF StreetOf(input) # StreetOf(decoded)
          THEN <<Difference("beneficiaryAddress.street", StreetOf(input), StreetOf(decoded))>>
          ELSE <<>>)
      \o (IF CityOf(input) # CityOf(decoded)
          THEN <<Difference("beneficiaryAddress.city", CityOf(input), CityOf(decoded))>>
          ELSE <<>>)
    ELSE <<>>

\* the RoundTripResult of comparing the record with the decoded one
\* verifyRoundTrip returning the record with the IBAN it normalised
RoundTripResultNormalised(input, decoded) ==
    LET differences == compareScalars(1, input, decoded) \o compareAddress(input, decoded)
    IN  [kind |-> "ok", message |-> "",
         value |-> Some([isLossless |-> Len(differences) = 0,
                         differences |-> differences,
                         input |-> [input EXCEPT !.iban = Some(stripWhitespace(input.iban[1]))],
                         decoded |-> decoded]),
         cause |-> None]

RoundTripResult(input, decoded) ==
    LET differences == compareScalars(1, input, decoded) \o compareAddress(input, decoded)
    IN  [kind |-> "ok", message |-> "",
         value |-> Some([isLossless |-> Len(differences) = 0,
                         differences |-> differences,
                         input |-> input,
                         decoded |-> decoded]),
         cause |-> None]

\* verifyRoundTrip decoding a second time when decoding has failed
verifyRoundTripRetry(input, tz, fault) ==
    LET g == generatePayBySquare(input, tz, fault)
    IN  IF g.result.kind # "ok"
        THEN [result |-> g.result, encoded |-> g.encoded, calls |-> g.calls]
        ELSE LET d == decodePayBySquare(g.buffer[1], fault)
             IN  IF d.result.kind # "ok"
                 THEN [result |-> d.result, encoded |-> g.encoded,
                       calls |-> g.calls \o d.calls \o d.calls]
                 ELSE [result |-> RoundTripResult(input, d.result.value[1]),
                       encoded |-> g.encoded,
                       calls |-> g.calls \o d.calls \o <<"compareField">>]

\* `result` is the RoundTripResult or the error that generation or decoding
\* raised, `encoded` the data model handed to the codec, `calls` the steps
\* taken in order
verifyRoundTrip(input, tz, fault) ==
    LET g == generatePayBySquare(input, tz, fault)
    IN  IF g.result.kind # "ok"
        THEN [result |-> g.result, encoded |-> g.encoded, calls |-> g.calls]
        ELSE LET d == decodePayBySquare(g.buffer[1], fault)
             IN  IF d.result.kind # "ok"
                 THEN [result |-> d.result, encoded |-> g.encoded, calls |-> g.calls \o d.calls]
                 ELSE [result |-> RoundTripResult(input, d.result.value[1]),
                       encoded |-> g.encoded,
                       calls |-> g.calls \o d.calls \o <<"compareField">>]

\* `result` is the report on the decoded record or the DecodingError raised
checkQRCompliance(buffer, fault) ==
    LET d == decodePayBySquare(buffer, fault)
    IN  IF d.result.kind # "ok" THEN d
        ELSE [result |-> [kind |-> "ok", message |-> "",
                          value |-> Some(checkCompliance(d.result.value[1])),
                          cause |-> None],
              calls |-> d.calls \o <<"checkCompliance">>]

\* ------------------------------------------------------------------------
\* Payment records under test
\* ------------------------------------------------------------------------
SK(rest) == <<"S", "K">> \o rest

ValidIban == SK(<<"9", "6", "1", "1", "0", "0", "0", "0", "0", "0", "0", "0",
                  "2", "9", "1", "8", "5", "9", "9", "6", "6", "9">>)

SpacedIban == SK(<<"9", "6", " ", "1", "1", "0", "0", " ", "0", "0", "0", "0", " ", "0", "0",
                   "2", "9", " ", "1", "8", "5", "9", " ", "9", "6", "6", "9">>)

GermanIban == <<"D", "E", "8", "9", "3", "7", "0", "4", "0", "0", "4", "4", "0", "5", "3", "2",
                "0", "1", "3", "0", "0", "0">>

BadChecksumIban == SK(Rep("9", 22))

ShortIban == SK(<<"9", "6", "1", "1", "0">>)

LongIban == ValidIban \o Rep("0", 11)

TenDigits == <<"1", "2", "3", "4", "5", "6", "7", "8", "9", "0">>

Fields == {"iban", "beneficiaryName", "amount", "currency", "variableSymbol",
           "constantSymbol", "specificSymbol", "paymentNote", "dueDate", "swift",
           "originatorReference", "beneficiaryAddress"}

Address(st, ci) == Some([street |-> st, city |-> ci])

\* the minimal valid record of the tests
BaseRecord ==
    [iban |-> Some(ValidIban), beneficiaryName |-> Some(<<"T">>), amount |-> None,
     currency |-> None, variableSymbol |-> None, constantSymbol |-> None,
     specificSymbol |-> None, paymentNote |-> None, dueDate |-> None, swift |-> None,
     originatorReference |-> None, beneficiaryAddress |-> None]

\* the other values each field takes
Alternatives ==
    [iban |-> <<None, Some(<<" ", " ">>), Some(SpacedIban), Some(GermanIban),
                Some(BadChecksumIban), Some(ShortIban),
                Some(<<"I", "N", "V", "A", "L", "I", "D">>), Some(LongIban)>>,
     beneficiaryName |-> <<None, Some(<<" ">>), Some(Rep("x", 70)),
                           Some(Rep("x", 71)), Some(<<"J", "a'", "n">>)>>,
     amount |-> <<Some(Zero), Some(Num(0, 100)), Some(Neg(0, 100)),
                  Some(Num(999999, 999999999)), Some(Num(1000000, 0)),
                  Some(NaN), Some(Infinity), Some(NegInfinity), Some(NotANumberType)>>,
     currency |-> <<Some(<<>>), Some(EUR), Some(<<"e", "u", "r">>), Some(<<"Q", "Q", "Q">>),
                    Some(<<"E", "U", "R", "O">>), Some(<<"E", "1", "R">>)>>,
     variableSymbol |-> <<Some(<<>>), Some(<<"1", "2", "3">>), Some(TenDigits),
                          Some(TenDigits \o <<"1">>), Some(<<"A", "B", "C", "1">>)>>,
     constantSymbol |-> <<Some(<<"0", "3", "0", "8">>), Some(<<"1", "2", "3", "4", "5">>)>>,
     specificSymbol |-> <<Some(TenDigits), Some(TenDigits \o <<"1">>)>>,
     paymentNote |-> <<Some(<<>>), Some(Rep("y", 140)), Some(Rep("y", 141))>>,
     dueDate |-> <<Some(<<"2", "0", "2", "6", "-", "1", "2", "-", "3", "1">>),
                   Some(<<"2", "0", "2", "6", "-", "0", "2", "-", "3", "0">>),
                   Some(<<"2", "0", "2", "6", "/", "1", "2", "/", "3", "1">>),
                   Some(<<"2", "0", "2", "4", "-", "0", "2", "-", "2", "9">>),
                   Some(<<"2", "0", "2", "6", "-", "1", "3", "-", "0", "1">>)>>,
     swift |-> <<Some(<<"T", "A", "T", "R", "S", "K", "B", "X">>), Some(<<"B", "A", "D">>)>>,
     originatorReference |-> <<Some(<<"R", "E", "F">>), Null>>,
     beneficiaryAddress |-> <<Address(None, None), Address(Some(<<"M">>), None),
                              Address(Some(Rep("s", 70)), Some(Rep("c", 70))),
                              Address(Some(Rep("s", 71)), None),
                              Address(None, Some(Rep("c", 71))),
                              Address(Some(<<>>), Some(<<"B">>)),
                              Address(Null, Some(<<"B">>))>>]

\* how many fields of a record differ from BaseRecord
MaxChanged == 2

\* the longest list of alternatives
MaxAlternatives == Len(Alternatives.amount)

\* local time of the host, in hours east of UTC
TimeZones == {-5, 0}

ForeignBuffers == {NotAPng, BlankPng, toBuffer(GarbageWire)}

\* PayBySquare data from another generator: without a payment, with a
\* payment without a bank account, with a bank account without an IBAN
NoPaymentWire == [encode(transformToDataModel(BaseRecord), TRUE) EXCEPT !.payments = <<>>]

NoAccountWire ==
    [encode(transformToDataModel(BaseRecord), TRUE) EXCEPT !.payments[1].bankAccounts = <<>>]

NoIbanWire ==
    [encode(transformToDataModel(BaseRecord), TRUE)
        EXCEPT !.payments[1].bankAccounts[1].iban = <<>>]

IncompleteBuffers == {toBuffer(NoPaymentWire), toBuffer(NoAccountWire), toBuffer(NoIbanWire)}

\* ------------------------------------------------------------------------
\* State machine: one payment record, the public operations called on it
\* ------------------------------------------------------------------------
\* input: the payment record; tz: the time zone of the host; op: the last
\* operation called and result: what it returned or raised; encoded: the data
\* model it handed to the codec; image: the PNG buffer it returned; calls:
\* the steps it took, in order; scanned: the buffer it was given to decode;
\* fault: the collaborator that failed during it.
\* running: the calls in flight, each with its position, its arguments and
\* what it returned or raised; locals: the local variables of each of them,
\* which last as long as the call.
\* tool: the tool call that the server last handled, its name and arguments
VARIABLES input, tz, op, result, encoded, image, calls, scanned, fault,
          running, locals, tool

vars == <<input, tz, op, result, encoded, image, calls, scanned, fault,
          running, locals, tool>>

\* the number of calls that can be in flight at once
MaxCalls == 2

CallIds == 1..MaxCalls

\* no call in flight in this place
Idle == [pc |-> "idle", request |-> None, outcome |-> None, interleaved |-> FALSE]

\* the local variables of a call before it has assigned any
NoLocals == [input |-> None, qrString |-> None, qrBuffer |-> None]

Init ==
    /\ \E S \in SUBSET Fields :
          /\ Cardinality(S) <= MaxChanged
          /\ \E ch \in [S -> 1..MaxAlternatives] :
                /\ \A f \in S : ch[f] <= Len(Alternatives[f])
                /\ input = [f \in Fields |-> IF f \in S THEN Alternatives[f][ch[f]]
                                                       ELSE BaseRecord[f]]
          \* only the due date is read in the time zone of the host
          /\ tz \in IF "dueDate" \in S THEN TimeZones ELSE {0}
    /\ op = "none"
    /\ result = None
    /\ encoded = None
    /\ image = None
    /\ calls = <<>>
    /\ scanned = None
    /\ fault = "none"
    /\ running = [c \in CallIds |-> Idle]
    /\ locals = [c \in CallIds |-> NoLocals]
    /\ tool = None

\* the record has the fields that the type PayBySquareInput requires
WellTyped(r) ==
    /\ IsDef(r.iban)
    /\ IsDef(r.beneficiaryName)
    /\ IsDef(r.amount) => IsNumberType(r.amount[1])

Validate ==
    /\ op' = "validateInput"
    /\ result' = validateInput(input, tz)
    /\ encoded' = None
    /\ calls' = <<"validateInput">>
    /\ scanned' = None
    /\ fault' = "none"
    /\ image' = None
    /\ UNCHANGED <<input, tz, running, locals, tool>>

CheckCompliance ==
    /\ WellTyped(input)
    /\ op' = "checkCompliance"
    /\ result' = checkCompliance(input)
    /\ encoded' = None
    /\ calls' = <<"checkCompliance">>
    /\ scanned' = None
    /\ fault' = "none"
    /\ image' = None
    /\ UNCHANGED <<input, tz, running, locals, tool>>

IsCompliant ==
    /\ WellTyped(input)
    /\ op' = "isCompliant"
    /\ result' = isCompliant(input)
    /\ encoded' = None
    /\ calls' = <<"isCompliant">>
    /\ scanned' = None
    /\ fault' = "none"
    /\ image' = None
    /\ UNCHANGED <<input, tz, running, locals, tool>>

\* a collaborator can fail only in a call that reaches it
Generate(f) ==
    LET g == generatePayBySquare(input, tz, f)
    IN  /\ f # "none" => g.result.kind # "ValidationError"
        /\ op' = "generatePayBySquare"
        /\ result' = g.result
        /\ encoded' = g.encoded
        /\ image' = g.buffer
        /\ calls' = g.calls
        /\ scanned' = None
        /\ fault' = f
        /\ UNCHANGED <<input, tz, running, locals, tool>>

\* decodePayBySquare on the buffer that the call before, a
\* generatePayBySquare, returned
DecodeGenerated ==
    /\ image # None
    /\ LET d == decodePayBySquare(image[1], "none")
       IN  /\ result' = d.result
           /\ calls' = d.calls
    /\ op' = "decodeGenerated"
    /\ encoded' = None
    /\ scanned' = image
    /\ fault' = "none"
    /\ image' = None
    /\ UNCHANGED <<input, tz, running, locals, tool>>

\* decodePayBySquare on a buffer from elsewhere
DecodeForeign(buffer) ==
    /\ LET d == decodePayBySquare(buffer, "none")
       IN  /\ result' = d.result
           /\ calls' = d.calls
    /\ op' = "decodeForeign"
    /\ encoded' = None
    /\ scanned' = Some(buffer)
    /\ fault' = "none"
    /\ image' = None
    /\ UNCHANGED <<input, tz, running, locals, tool>>

\* checkQRCompliance on the buffer that the call before returned or on a
\* blank image
CheckQRCompliance(buffer) ==
    /\ LET c == checkQRCompliance(buffer, "none")
       IN  /\ result' = c.result
           /\ calls' = c.calls
    /\ op' = "checkQRCompliance"
    /\ encoded' = None
    /\ scanned' = Some(buffer)
    /\ fault' = "none"
    /\ image' = None
    /\ UNCHANGED <<input, tz, running, locals, tool>>

VerifyRoundTrip(f) ==
    /\ LET v == verifyRoundTrip(input, tz, f)
       IN  /\ f # "none" => v.result.kind # "ValidationError"
           /\ result' = v.result
           /\ encoded' = v.encoded
           /\ calls' = v.calls
    /\ op' = "verifyRoundTrip"
    /\ scanned' = None
    /\ fault' = f
    /\ image' = None
    /\ UNCHANGED <<input, tz, running, locals, tool>>

Next ==
    \/ Validate
    \/ CheckCompliance
    \/ IsCompliant
    \/ \E f \in Faults : Generate(f)
    \/ DecodeGenerated
    \/ \E buffer \in ForeignBuffers \cup IncompleteBuffers : DecodeForeign(buffer)
    \/ \E buffer \in {BlankPng} \cup {image[i] : i \in 1..Len(image)} :
          CheckQRCompliance(buffer)
    \/ \E f \in Faults \cup DecodeFaults : VerifyRoundTrip(f)

Spec == Init /\ [][Next]_vars

\* ------------------------------------------------------------------------
\* Concurrent calls: several operations in flight on one event loop, each
\* running from one await to the next without interruption
\* ------------------------------------------------------------------------
\* a payment of one euro, which passes validation
WithAmount ==
    [f \in Fields |-> IF f = "amount" THEN Some(Num(1, 0))
                      ELSE IF f = "currency" THEN Some(EUR)
                      ELSE BaseRecord[f]]

\* a record that fails validation
ShortRecord == [f \in Fields |-> IF f = "iban" THEN Some(ShortIban) ELSE BaseRecord[f]]

\* the records the calls are made on
ConcurrentRecords == {WithAmount, ShortRecord}

\* a call of operation o on record r or buffer b, during which collaborator
\* f fails
Request(o, r, b, f) == [fault |-> f, buffer |-> b, record |-> r, op |-> o]

\* what a call returns or raises when it is the only call in flight
Alone(req, zone) ==
    CASE req.op = "validateInput" -> validateInput(req.record[1], zone)
      [] req.op = "checkCompliance" -> checkCompliance(req.record[1])
      [] req.op = "generatePayBySquare" ->
            LET g == generatePayBySquare(req.record[1], zone, req.fault)
            IN  [result |-> g.result, buffer |-> g.buffer]
      [] req.op = "decodePayBySquare" -> decodePayBySquare(req.buffer[1], req.fault).result
      [] req.op = "verifyRoundTrip" -> verifyRoundTrip(req.record[1], zone, req.fault).result

Suspended(c) == running[c].pc \in {"awaitRender", "awaitRead"}

\* a decodePayBySquare call that raises taking the calls suspended meanwhile
\* down with it
StepAborting(c, after) ==
    [d \in CallIds |->
        IF d = c THEN after
        ELSE IF Suspended(d) /\ after.pc = "done"
                /\ after.request[1].op = "decodePayBySquare"
                /\ after.outcome[1].kind # "ok"
        THEN [running[d] EXCEPT !.pc = "done", !.outcome = after.outcome,
                                !.interleaved = TRUE]
        ELSE IF Suspended(d) THEN [running[d] EXCEPT !.interleaved = TRUE]
        ELSE running[d]]

\* call c takes a step: it changes nothing of another call; the calls
\* suspended meanwhile have been interleaved with it
Step(c, after) ==
    [d \in CallIds |->
        IF d = c THEN after
        ELSE IF Suspended(d) THEN [running[d] EXCEPT !.interleaved = TRUE]
        ELSE running[d]]

Finished(c, outcome) ==
    [running[c] EXCEPT !.pc = "done", !.outcome = Some(outcome)]

\* the images that generatePayBySquare calls have returned and the callers
\* have not yet taken
Generated ==
    {running[d].outcome[1].buffer[1] :
        d \in {e \in CallIds : /\ running[e].pc = "done"
                               /\ running[e].request[1].op = "generatePayBySquare"
                               /\ running[e].outcome[1].buffer # None}}

\* validateInput and checkCompliance have no await: the call runs to its end
CallSync(c, req) ==
    /\ running[c].pc = "idle"
    /\ req.op \in {"validateInput", "checkCompliance"}
    /\ running' = Step(c, [pc |-> "done", request |-> Some(req),
                           outcome |-> Some(IF req.op = "validateInput"
                                            THEN validateInput(req.record[1], tz)
                                            ELSE checkCompliance(req.record[1])),
                           interleaved |-> FALSE])
    /\ UNCHANGED <<input, tz, op, result, encoded, image, calls, scanned, fault, locals, tool>>

\* generatePayBySquare, called directly or by verifyRoundTrip, up to its
\* await on QRCode.toBuffer: validation, the adapter and the codec
CallGenerate(c, req) ==
    /\ running[c].pc = "idle"
    /\ req.op \in {"generatePayBySquare", "verifyRoundTrip"}
    /\ req.fault = "detector" => req.op = "verifyRoundTrip"
    /\ req.fault # "none" => validateInput(req.record[1], tz).kind = "ok"
    /\ LET v == validateInput(req.record[1], tz)
           failed == Failure("EncodingError", "Failed to encode payment data",
                             Thrown("encode"))
           started == [pc |-> "called", request |-> Some(req), outcome |-> None,
                       interleaved |-> FALSE]
       IN  IF v.kind # "ok"
           THEN /\ running' = Step(c, [started EXCEPT !.pc = "done",
                                         !.outcome = Some(IF req.op = "generatePayBySquare"
                                                          THEN [result |-> v, buffer |-> None]
                                                          ELSE v)])
                /\ UNCHANGED locals
           ELSE IF req.fault = "codec"
           THEN /\ running' = Step(c, [started EXCEPT !.pc = "done",
                                         !.outcome = Some(IF req.op = "generatePayBySquare"
                                                          THEN [result |-> failed, buffer |-> None]
                                                          ELSE failed)])
                /\ UNCHANGED locals
           ELSE /\ running' = Step(c, [started EXCEPT !.pc = "awaitRender"])
                /\ locals' = [locals EXCEPT
                      ![c].input = req.record,
                      ![c].qrString =
                          Some(encode(transformToDataModel(req.record[1]), TRUE))]
    /\ UNCHANGED <<input, tz, op, result, encoded, image, calls, scanned, fault, tool>>

\* the promise of QRCode.toBuffer settles: generatePayBySquare returns the
\* buffer or raises GenerationError; verifyRoundTrip goes on to
\* decodePayBySquare, up to its await on Jimp.read
RenderSettled(c) ==
    /\ running[c].pc = "awaitRender"
    /\ LET req == running[c].request[1]
           failed == Failure("GenerationError", "Failed to generate QR code PNG",
                             Thrown("QRCode.toBuffer"))
           buffer == toBuffer(locals[c].qrString[1])
       IN  IF req.fault = "renderer"
           THEN /\ running' = Step(c, Finished(c, IF req.op = "generatePayBySquare"
                                                  THEN [result |-> failed, buffer |-> None]
                                                  ELSE failed))
                /\ locals' = [locals EXCEPT ![c] = NoLocals]
           ELSE IF req.op = "generatePayBySquare"
           THEN /\ running' = Step(c, Finished(c, [result |-> Accepted, buffer |-> Some(buffer)]))
                /\ locals' = [locals EXCEPT ![c] = NoLocals]
           ELSE /\ running' = Step(c, [running[c] EXCEPT !.pc = "awaitRead"])
                /\ locals' = [locals EXCEPT ![c].qrBuffer = Some(buffer)]
    /\ UNCHANGED <<input, tz, op, result, encoded, image, calls, scanned, fault, tool>>

\* decodePayBySquare up to its await on Jimp.read
CallDecode(c, req) ==
    /\ running[c].pc = "idle"
    /\ req.op = "decodePayBySquare"
    /\ running' = Step(c, [pc |-> "awaitRead", request |-> Some(req), outcome |-> None,
                           interleaved |-> FALSE])
    /\ locals' = [locals EXCEPT ![c].qrBuffer = req.buffer]
    /\ UNCHANGED <<input, tz, op, result, encoded, image, calls, scanned, fault, tool>>

\* the promise of Jimp.read settles: the detector, the codec and the adapter
\* run, and in verifyRoundTrip the comparison with the record of the call
ReadSettled(c) ==
    /\ running[c].pc = "awaitRead"
    /\ LET req == running[c].request[1]
           d == decodePayBySquare(locals[c].qrBuffer[1], req.fault).result
       IN  running' = Step(c, Finished(c,
               IF req.op = "decodePayBySquare" \/ d.kind # "ok"
               THEN d
               ELSE RoundTripResult(locals[c].input[1], d.value[1])))
    /\ locals' = [locals EXCEPT ![c] = NoLocals]
    /\ UNCHANGED <<input, tz, op, result, encoded, image, calls, scanned, fault, tool>>

\* the caller takes the result of the call
Return(c) ==
    /\ running[c].pc = "done"
    /\ running' = Step(c, Idle)
    /\ UNCHANGED <<input, tz, op, result, encoded, image, calls, scanned, fault, locals, tool>>

InitConcurrent ==
    /\ input = BaseRecord
    /\ tz \in TimeZones
    /\ op = "none"
    /\ result = None
    /\ encoded = None
    /\ image = None
    /\ calls = <<>>
    /\ scanned = None
    /\ fault = "none"
    /\ running = [c \in CallIds |-> Idle]
    /\ locals = [c \in CallIds |-> NoLocals]
    /\ tool = None

NextConcurrent ==
    \E c \in CallIds :
        \/ \E o \in {"validateInput", "checkCompliance"}, r \in ConcurrentRecords :
              CallSync(c, Request(o, Some(r), None, "none"))
        \/ \E o \in {"generatePayBySquare", "verifyRoundTrip"}, r \in ConcurrentRecords,
              f \in Faults \cup DecodeFaults :
              CallGenerate(c, Request(o, Some(r), None, f))
        \/ \E b \in {BlankPng} \cup Generated :
              CallDecode(c, Request("decodePayBySquare", None, Some(b), "none"))
        \/ RenderSettled(c)
        \/ ReadSettled(c)
        \/ Return(c)

SpecConcurrent == InitConcurrent /\ [][NextConcurrent]_vars

\* ------------------------------------------------------------------------
\* MCP server: the handler of tool calls (mcp-server/index.ts)
\* ------------------------------------------------------------------------
\* z.string(): a string, neither undefined nor null
zodString(o) == Len(o) = 1

\* z.number().positive(); `finiteOnly` is whether the installed zod takes an
\* infinite number for a number
zodPositive(x, finiteOnly) ==
    \/ x.k = "num" /\ ~x.neg /\ (x.hi > 0 \/ x.lo > 0)
    \/ x.k = "inf" /\ ~x.neg /\ ~finiteOnly

\* whether PayBySquareInputSchema.parse(payment) returns; the value it
\* returns has the fields of the payment
PayBySquareInputSchema(payment, finiteOnly) ==
    /\ zodString(payment.iban)
    /\ Len(payment.iban[1]) >= 15 /\ Len(payment.iban[1]) <= 34
    /\ zodString(payment.beneficiaryName)
    /\ Len(payment.beneficiaryName[1]) <= 70
    /\ payment.amount # None => zodPositive(payment.amount[1], finiteOnly)
    /\ payment.currency # None => zodString(payment.currency) /\ Len(payment.currency[1]) = 3
    /\ payment.variableSymbol # None =>
          zodString(payment.variableSymbol) /\ DigitString(payment.variableSymbol[1], 10)
    /\ payment.constantSymbol # None =>
          zodString(payment.constantSymbol) /\ DigitString(payment.constantSymbol[1], 4)
    /\ payment.specificSymbol # None =>
          zodString(payment.specificSymbol) /\ DigitString(payment.specificSymbol[1], 10)
    /\ payment.paymentNote # None =>
          zodString(payment.paymentNote) /\ Len(payment.paymentNote[1]) <= 140
    /\ payment.dueDate # None =>
          zodString(payment.dueDate) /\ MatchesDatePattern(payment.dueDate[1])
    /\ payment.swift # None => zodString(payment.swift)
    /\ payment.originatorReference # None => zodString(payment.originatorReference)
    /\ payment.beneficiaryAddress # None =>
          /\ StreetOf(payment) # None =>
                zodString(StreetOf(payment)) /\ Len(StreetOf(payment)[1]) <= 70
          /\ CityOf(payment) # None =>
                zodString(CityOf(payment)) /\ Len(CityOf(payment)[1]) <= 70

ToolNames == {"generate_paybysquare", "decode_paybysquare", "check_compliance",
              "verify_roundtrip"}

\* an error as the catch block sees it: its message, which for a rejected
\* currency ends with the code
Raised(kind, msg, detail) == [kind |-> kind, message |-> msg, detail |-> detail]

RaisedBy(e) ==
    Raised(e.kind, e.message, IF e.kind = "ValidationError" THEN e.detail ELSE None)

ZodError == Raised("ZodError", "issues", None)

\* destructuring `arguments` when the request has none, or Buffer.from of
\* an undefined imageBase64
TypeError == Raised("TypeError", "undefined", None)

Returns(body) == [returned |-> Some(body), thrown |-> None]

Throws(e) == [returned |-> None, thrown |-> Some(e)]

\* the cases of the switch after the library call: the body returned, or
\* the error of the library thrown on
decodeCase(d) ==
    IF d.kind # "ok" THEN Throws(RaisedBy(d))
    ELSE Returns([payment |-> d.value[1], message |-> "QR code decoded successfully"])

generateCase(g) ==
    IF g.result.kind # "ok" THEN Throws(RaisedBy(g.result))
    ELSE Returns([imageBase64 |-> g.buffer[1], message |-> "QR code generated successfully"])

detailedCase(report) ==
    Returns([compliance |-> report,
             message |-> IF report.isCompliant THEN "Payment data is fully compliant"
                         ELSE "Found error(s) and warning(s)"])

briefCase(isValid) ==
    Returns([isCompliant |-> isValid,
             message |-> IF isValid THEN "Payment data is compliant"
                         ELSE "Payment data has compliance issues"])

verifyCase(v) ==
    IF v.kind # "ok" THEN Throws(RaisedBy(v))
    ELSE Returns([roundtrip |-> v.value[1],
                  message |-> IF v.value[1].isLossless
                              THEN "Data perfectly preserved through encode/decode cycle"
                              ELSE "Found difference(s)"])

\* the try block of the handler: the body it returns or what is thrown in it
callToolTry(name, args, zone, f, finiteOnly) ==
    IF name \notin ToolNames THEN Throws(Raised("Error", "Unknown tool: ", Some(name)))
    ELSE IF args = None THEN Throws(TypeError)
    ELSE IF name = "decode_paybysquare"
    THEN IF args[1].imageBase64 = None THEN Throws(TypeError)
         ELSE decodeCase(decodePayBySquare(args[1].imageBase64[1], f).result)
    ELSE IF args[1].payment = None \/ ~PayBySquareInputSchema(args[1].payment[1], finiteOnly)
    THEN Throws(ZodError)
    ELSE IF name = "generate_paybysquare"
    THEN generateCase(generatePayBySquare(args[1].payment[1], zone, f))
    ELSE IF name = "check_compliance"
    THEN IF args[1].detailed # Some(FALSE)
         THEN detailedCase(checkCompliance(args[1].payment[1]))
         ELSE briefCase(isCompliant(args[1].payment[1]))
    ELSE verifyCase(verifyRoundTrip(args[1].payment[1], zone, f).result)

\* what the handler hands back: the JSON body of the response and isError,
\* or the error that leaves the handler
Success(body) ==
    [escaped |-> None, success |-> TRUE, isError |-> FALSE, error |-> None,
     body |-> Some(body)]

ErrorResponse(e) ==
    [escaped |-> None, success |-> FALSE, isError |-> TRUE,
     error |-> Some(<<e.message, e.detail>>), body |-> None]

Escaped(e) ==
    [escaped |-> Some(e), success |-> FALSE, isError |-> FALSE, error |-> None,
     body |-> None]

\* the catch block letting the error of an unknown tool name pass
catchKnownTools(name, t) ==
    IF t.thrown = None THEN Success(t.returned[1])
    ELSE IF name \notin ToolNames THEN Escaped(t.thrown[1])
    ELSE ErrorResponse(t.thrown[1])

\* the catch block: whatever was thrown becomes an error response
catch(name, t) ==
    IF t.thrown = None THEN Success(t.returned[1]) ELSE ErrorResponse(t.thrown[1])

\* the handler: the try block and its catch
callTool(name, args, zone, f, finiteOnly) ==
    catch(name, callToolTry(name, args, zone, f, finiteOnly))

\* the arguments of a request: none at all, or the payment record, the
\* `detailed` flag and the image
Arguments(name, given, detailed, buffer) ==
    IF ~given THEN None
    ELSE Some([payment |-> IF name = "decode_paybysquare" THEN None ELSE Some(input),
               detailed |-> detailed,
               imageBase64 |-> buffer])

\* the images a client can send: foreign ones and the one of the record
ClientImages ==
    ForeignBuffers \cup
        (IF validateInput(input, tz).kind = "ok"
         THEN {toBuffer(encode(transformToDataModel(input), TRUE))} ELSE {})

\* one tool call; a collaborator can fail only in a call that reaches it,
\* and the version of zod shows only on an infinite amount
CallTool(name, given, detailed, buffer, f, finiteOnly) ==
    /\ finiteOnly => given /\ input.amount = Some(Infinity)
    /\ detailed # None => name = "check_compliance"
    /\ buffer # None => name = "decode_paybysquare"
    /\ ~given => detailed = None /\ buffer = None
    /\ f # "none" =>
          /\ given
          /\ \/ /\ name = "verify_roundtrip" \/ (name = "generate_paybysquare" /\ f # "detector")
                /\ PayBySquareInputSchema(input, finiteOnly)
                /\ validateInput(input, tz).kind = "ok"
             \/ /\ f = "detector"
                /\ name = "decode_paybysquare"
                /\ buffer # None
                /\ buffer[1].readable
    /\ tool' = Some([name |-> name, arguments |-> Arguments(name, given, detailed, buffer),
                     finiteOnly |-> finiteOnly])
    /\ op' = "callTool"
    /\ result' = callTool(name, Arguments(name, given, detailed, buffer), tz, f, finiteOnly)
    /\ fault' = f
    /\ encoded' = None
    /\ image' = None
    /\ calls' = <<>>
    /\ scanned' = None
    /\ UNCHANGED <<input, tz, running, locals>>

\* how many fields of the payment of a request differ from BaseRecord
MaxPaymentChanged == 1

InitServer ==
    /\ \E S \in SUBSET Fields :
          /\ Cardinality(S) <= MaxPaymentChanged
          /\ \E ch \in [S -> 1..MaxAlternatives] :
                /\ \A f \in S : ch[f] <= Len(Alternatives[f])
                /\ input = [f \in Fields |-> IF f \in S THEN Alternatives[f][ch[f]]
                                                       ELSE BaseRecord[f]]
          /\ tz \in IF "dueDate" \in S THEN TimeZones ELSE {0}
    /\ op = "none"
    /\ result = None
    /\ encoded = None
    /\ image = None
    /\ calls = <<>>
    /\ scanned = None
    /\ fault = "none"
    /\ running = [c \in CallIds |-> Idle]
    /\ locals = [c \in CallIds |-> NoLocals]
    /\ tool = None

NextServer ==
    \E name \in ToolNames \cup {"no_such_tool"}, given \in BOOLEAN,
       detailed \in {None, Some(FALSE)},
       buffer \in {None} \cup {Some(b) : b \in ClientImages},
       f \in Faults \cup DecodeFaults, finiteOnly \in BOOLEAN :
        CallTool(name, given, detailed, buffer, f, finiteOnly)

SpecServer == InitServer /\ [][NextServer]_vars

\* ------------------------------------------------------------------------
\* Properties
\* ------------------------------------------------------------------------
\* The fourteen validation rules in the documented order: whether record r
\* breaks rule i, each rule taken on its own
BreaksRule(i, r, z) ==
    CASE i = 1  -> ~(IsDef(r.iban) /\ trim(r.iban[1]) # <<>>)
      [] i = 2  -> ~(IsDef(r.beneficiaryName) /\ trim(r.beneficiaryName[1]) # <<>>)
      [] i = 3  -> IsDef(r.iban) /\ ~isValidIBANFormat(r.iban[1])
      [] i = 4  -> IsDef(r.amount) /\ (~IsNumberType(r.amount[1]) \/ LessThanZero(r.amount[1]))
      [] i = 5  -> IsDef(r.amount) /\ ~isFinite(r.amount[1])
      [] i = 6  -> Truthy(r.currency) /\ ~isValidCurrencyCode(r.currency[1])
      [] i = 7  -> Truthy(r.variableSymbol) /\ ~DigitString(r.variableSymbol[1], 10)
      [] i = 8  -> Truthy(r.constantSymbol) /\ ~DigitString(r.constantSymbol[1], 4)
      [] i = 9  -> Truthy(r.specificSymbol) /\ ~DigitString(r.specificSymbol[1], 10)
      [] i = 10 -> Truthy(r.paymentNote) /\ Len(r.paymentNote[1]) > 140
      [] i = 11 -> IsDef(r.beneficiaryName) /\ Len(r.beneficiaryName[1]) > 70
      [] i = 12 -> Truthy(StreetOf(r)) /\ Len(StreetOf(r)[1]) > 70
      [] i = 13 -> Truthy(CityOf(r)) /\ Len(CityOf(r)[1]) > 70
      [] i = 14 -> Truthy(r.dueDate) /\ ~isValidISODate(r.dueDate[1], z)

RuleMessage ==
    <<"IBAN is required", "Beneficiary name is required", "Invalid IBAN format",
      "Amount must be a positive number", "Amount must be a finite number",
      "Invalid currency code: ", "Variable symbol must be 1-10 digits",
      "Constant symbol must be 1-4 digits", "Specific symbol must be 1-10 digits",
      "Payment note cannot exceed 140 characters",
      "Beneficiary name cannot exceed 70 characters",
      "Beneficiary street cannot exceed 70 characters",
      "Beneficiary city cannot exceed 70 characters",
      "Due date must be in ISO 8601 format (YYYY-MM-DD)">>

BrokenRules(r, z) == {i \in 1..14 : BreaksRule(i, r, z)}

Earliest(S) == CHOOSE i \in S : \A j \in S : i <= j

\* C1: validateInput raises the error of the earliest broken rule of the
\* documented order, whatever later rules are broken as well, and accepts a
\* record that breaks none.
C1_FailFastOrder ==
    op = "validateInput" =>
        IF BrokenRules(input, tz) = {}
        THEN result.kind = "ok"
        ELSE /\ result.kind = "ValidationError"
             /\ result.message = RuleMessage[Earliest(BrokenRules(input, tz))]

\* validateInput has run on a record that breaks two rules
C1_Witness ==
    /\ op = "validateInput"
    /\ Cardinality(BrokenRules(input, tz)) >= 2
    /\ result.kind = "ValidationError"

\* the report of a verifyRoundTrip call that returned one
RoundTripReturned == op = "verifyRoundTrip" /\ result.kind = "ok"

\* C2 as stated: every round trip of an accepted record is lossless, the
\* decoded IBAN being the original without its whitespace.
C2_AlwaysLossless ==
    RoundTripReturned =>
        /\ result.value[1].isLossless
        /\ result.value[1].differences = <<>>
        /\ result.value[1].decoded.iban = Some(stripWhitespace(input.iban[1]))

HasAccent(o) == IsDef(o) /\ \E i \in 1..Len(o[1]) : o[1][i] \in DOMAIN Accented

AbsentOrNonEmpty(o) == o = None \/ (Len(o) = 1 /\ o[1] # <<>>)

\* the record already has the form that generation followed by decoding
\* gives it
RoundTripNormal(r) ==
    /\ stripWhitespace(r.iban[1]) = r.iban[1]
    /\ IsDef(r.currency) <=> IsDef(r.amount)
    /\ IsDef(r.currency) => r.currency[1] # <<>> /\ toUpperCase(r.currency[1]) = r.currency[1]
    /\ \A f \in {"variableSymbol", "constantSymbol", "specificSymbol", "paymentNote",
                  "dueDate", "swift", "originatorReference"} :
          Nullish(r[f]) \/ AbsentOrNonEmpty(r[f])
    /\ AbsentOrNonEmpty(StreetOf(r)) /\ AbsentOrNonEmpty(CityOf(r))
    /\ ~HasAccent(r.beneficiaryName) /\ ~HasAccent(r.paymentNote)
    /\ ~HasAccent(StreetOf(r)) /\ ~HasAccent(CityOf(r))

\* C2, amended: the round trip of an accepted record is lossless, with no
\* difference recorded, exactly when the record is in round-trip normal
\* form; the decoded IBAN is always the original without its whitespace.
C2_LosslessIffNormal ==
    RoundTripReturned =>
        /\ result.value[1].isLossless <=> RoundTripNormal(input)
        /\ result.value[1].isLossless <=> result.value[1].differences = <<>>
        /\ result.value[1].decoded.iban = Some(stripWhitespace(input.iban[1]))

\* a lossless round trip of a record with an amount, and a lossy one
C2_Witness ==
    /\ RoundTripReturned
    /\ IsDef(input.amount)
    /\ result.value[1].isLossless

C2_WitnessLossy ==
    /\ RoundTripReturned
    /\ input.iban = Some(SpacedIban)
    /\ ~result.value[1].isLossless

\* decodePayBySquare has returned a record for the buffer that
\* generatePayBySquare made of `input`
DecodedGenerated == op = "decodeGenerated" /\ result.kind = "ok"

\* C3: after generate and decode the record carries an amount, and a
\* currency, exactly when the original had an amount; an amount of 0 comes
\* back as 0, an absent amount comes back absent.
C3_AmountSentinel ==
    DecodedGenerated =>
        /\ IsDef(result.value[1].amount) <=> IsDef(input.amount)
        /\ IsDef(result.value[1].currency) <=> IsDef(input.amount)
        /\ IsDef(input.amount) => result.value[1].amount = input.amount

\* the length-bounded fields: the value of the field in a record, its bound,
\* whether its characters must be digits, and the message of its rule
Bounded ==
    {[field |-> "beneficiaryName", max |-> 70, digits |-> FALSE,
      message |-> "Beneficiary name cannot exceed 70 characters"],
     [field |-> "paymentNote", max |-> 140, digits |-> FALSE,
      message |-> "Payment note cannot exceed 140 characters"],
     [field |-> "street", max |-> 70, digits |-> FALSE,
      message |-> "Beneficiary street cannot exceed 70 characters"],
     [field |-> "city", max |-> 70, digits |-> FALSE,
      message |-> "Beneficiary city cannot exceed 70 characters"],
     [field |-> "variableSymbol", max |-> 10, digits |-> TRUE,
      message |-> "Variable symbol must be 1-10 digits"],
     [field |-> "specificSymbol", max |-> 10, digits |-> TRUE,
      message |-> "Specific symbol must be 1-10 digits"],
     [field |-> "constantSymbol", max |-> 4, digits |-> TRUE,
      message |-> "Constant symbol must be 1-4 digits"]}

ValueOf(b, r) ==
    IF b.field = "street" THEN StreetOf(r)
    ELSE IF b.field = "city" THEN CityOf(r)
    ELSE r[b.field]

\* the value of the bounded field has exactly n characters (digits, for a
\* symbol)
HasLength(b, r, n) ==
    /\ IsDef(ValueOf(b, r))
    /\ Len(ValueOf(b, r)[1]) = n
    /\ b.digits => AllIn(ValueOf(b, r)[1], Digits)

\* r with the bounded field put back to its value in the minimal record
Without(b, r) ==
    IF b.field = "street" THEN [r EXCEPT !.beneficiaryAddress = Address(None, CityOf(r))]
    ELSE IF b.field = "city" THEN [r EXCEPT !.beneficiaryAddress = Address(StreetOf(r), None)]
    ELSE [r EXCEPT ![b.field] = BaseRecord[b.field]]

OtherwiseValid(b, r, z) ==
    /\ IsDef(r.beneficiaryName) /\ IsDef(r.iban)
    /\ validateInput(Without(b, r), z).kind = "ok"

\* C4: in an otherwise valid record a bounded field of exactly the maximal
\* length is accepted, and one character more is rejected with the message
\* of that field.
C4_Boundaries ==
    op = "validateInput" =>
        \A b \in Bounded :
            OtherwiseValid(b, input, tz) =>
                /\ HasLength(b, input, b.max) => result.kind = "ok"
                /\ HasLength(b, input, b.max + 1) =>
                       result.kind = "ValidationError" /\ result.message = b.message

\* validateInput has accepted a 70-character name, and rejected a
\* 141-character note
C4_Witness ==
    /\ op = "validateInput"
    /\ IsDef(input.beneficiaryName) /\ Len(input.beneficiaryName[1]) = 70
    /\ result.kind = "ok"

C4_WitnessOver ==
    /\ op = "validateInput"
    /\ IsDef(input.paymentNote) /\ Len(input.paymentNote[1]) = 141
    /\ result.message = "Payment note cannot exceed 140 characters"

\* the data model that generatePayBySquare handed to the codec
EncodedAmount == encoded[1].payments[1].amount

\* C5: no record with an amount above 999,999,999,999,999 reaches the codec.
C5_NoOversizedAmountEncoded ==
    encoded # None /\ IsDef(EncodedAmount) => ~ExceedsMaximum(EncodedAmount[1])

\* the report of a checkCompliance call
Reported == op = "checkCompliance"

\* C6: a report is compliant exactly when it lists no error; warnings do
\* not count.
C6_CompliantIffNoErrors ==
    Reported => (result.isCompliant <=> result.errors = <<>>)

\* a compliant report that carries a warning
C6_Witness ==
    /\ Reported
    /\ result.warnings # <<>>
    /\ result.isCompliant

\* The rules of the compliance engine: the field and the message of the
\* issue of each rule, with the kind and the severity that the
\* classification policy gives it
RuleTable ==
    <<[id |-> "ibanChecksum", group |-> "iban", type |-> "error", severity |-> "critical",
       field |-> "iban", message |-> "IBAN checksum validation failed (mod-97 algorithm)"],
      [id |-> "ibanLength", group |-> "fields", type |-> "error", severity |-> "major",
       field |-> "iban", message |-> "IBAN length must be between 15 and 34 characters"],
      [id |-> "name", group |-> "fields", type |-> "error", severity |-> "major",
       field |-> "beneficiaryName", message |-> "Exceeds maximum length of 70 characters"],
      [id |-> "variableSymbol", group |-> "fields", type |-> "error", severity |-> "major",
       field |-> "variableSymbol", message |-> "Must contain only digits (1-10)"],
      [id |-> "constantSymbol", group |-> "fields", type |-> "error", severity |-> "major",
       field |-> "constantSymbol", message |-> "Must contain only digits (1-4)"],
      [id |-> "specificSymbol", group |-> "fields", type |-> "error", severity |-> "major",
       field |-> "specificSymbol", message |-> "Must contain only digits (1-10)"],
      [id |-> "paymentNote", group |-> "fields", type |-> "error", severity |-> "major",
       field |-> "paymentNote", message |-> "Exceeds maximum length of 140 characters"],
      [id |-> "street", group |-> "fields", type |-> "error", severity |-> "minor",
       field |-> "beneficiaryAddress.street",
       message |-> "Exceeds maximum length of 70 characters"],
      [id |-> "city", group |-> "fields", type |-> "error", severity |-> "minor",
       field |-> "beneficiaryAddress.city",
       message |-> "Exceeds maximum length of 70 characters"],
      [id |-> "dueDate", group |-> "fields", type |-> "error", severity |-> "major",
       field |-> "dueDate", message |-> "Must be in ISO 8601 format (YYYY-MM-DD)"],
      [id |-> "swift", group |-> "banking", type |-> "error", severity |-> "major",
       field |-> "swift", message |-> "Invalid BIC/SWIFT code format"],
      [id |-> "currency", group |-> "banking", type |-> "warning", severity |-> "minor",
       field |-> "currency", message |-> "Currency code not in ISO 4217 standard"],
      [id |-> "amountNegative", group |-> "banking", type |-> "error", severity |-> "critical",
       field |-> "amount", message |-> "Amount must be positive"],
      [id |-> "amountMaximum", group |-> "banking", type |-> "error", severity |-> "major",
       field |-> "amount",
       message |-> "Amount exceeds PayBySquare maximum (999,999,999,999,999)"],
      [id |-> "amountFinite", group |-> "banking", type |-> "error", severity |-> "critical",
       field |-> "amount", message |-> "Amount must be a finite number"]>>

Rules == {RuleTable[i] : i \in 1..Len(RuleTable)}

\* whether record r violates the rule, the rule taken on its own
Violates(rule, r) ==
    CASE rule.id = "ibanChecksum"   -> ~isValidIBAN(r.iban[1])
      [] rule.id = "ibanLength"     -> Len(stripWhitespace(r.iban[1])) \notin 15..34
      [] rule.id = "name"           -> Len(r.beneficiaryName[1]) > 70
      [] rule.id = "variableSymbol" -> Truthy(r.variableSymbol)
                                         /\ ~DigitString(r.variableSymbol[1], 10)
      [] rule.id = "constantSymbol" -> Truthy(r.constantSymbol)
                                         /\ ~DigitString(r.constantSymbol[1], 4)
      [] rule.id = "specificSymbol" -> Truthy(r.specificSymbol)
                                         /\ ~DigitString(r.specificSymbol[1], 10)
      [] rule.id = "paymentNote"    -> Truthy(r.paymentNote) /\ Len(r.paymentNote[1]) > 140
      [] rule.id = "street"         -> Truthy(StreetOf(r)) /\ Len(StreetOf(r)[1]) > 70
      [] rule.id = "city"           -> Truthy(CityOf(r)) /\ Len(CityOf(r)[1]) > 70
      [] rule.id = "dueDate"        -> Truthy(r.dueDate) /\ ~MatchesDatePattern(r.dueDate[1])
      [] rule.id = "swift"          -> Truthy(r.swift) /\ ~isValidBIC(r.swift[1])
      [] rule.id = "currency"       -> Truthy(r.currency)
                                         /\ toUpperCase(r.currency[1]) \notin CurrencyCode
      [] rule.id = "amountNegative" -> IsDef(r.amount) /\ LessThanZero(r.amount[1])
      [] rule.id = "amountMaximum"  -> IsDef(r.amount) /\ ExceedsMaximum(r.amount[1])
      [] rule.id = "amountFinite"   -> IsDef(r.amount) /\ ~isFinite(r.amount[1])

\* the issue reports a violation of the rule
IssueOf(rule, issue) == issue.field = rule.field /\ issue.message = rule.message

AllIssues(report) == report.errors \o report.warnings

Count(seq, P(_)) == Len(SelectSeq(seq, P))

IssuesOf(rule, report) == Count(AllIssues(report), LAMBDA i : IssueOf(rule, i))

\* C7: the report holds one issue for each rule that the record violates
\* and none for the others, whichever other rules are violated.
C7_Exhaustive ==
    Reported =>
        /\ \A rule \in Rules :
              IssuesOf(rule, result) = IF Violates(rule, input) THEN 1 ELSE 0
        /\ Len(AllIssues(result)) = Cardinality({rule \in Rules : Violates(rule, input)})

\* a report on a record with a failed checksum and a violation of a field
\* or banking rule
C7_Witness ==
    /\ Reported
    /\ ~isValidIBAN(input.iban[1])
    /\ \E rule \in Rules : rule.group # "iban" /\ rule.id # "ibanLength"
                              /\ Violates(rule, input) /\ IssuesOf(rule, result) = 1

\* C8: isCompliant returns what checkCompliance reports as isCompliant.
C8_BooleanAgrees ==
    op = "isCompliant" => result = checkCompliance(input).isCompliant

\* isCompliant has returned false for a record whose only violation is the
\* checksum, and true for some record
C8_Witness ==
    /\ op = "isCompliant"
    /\ result = FALSE
    /\ Len(checkCompliance(input).errors) = 1
    /\ ~checkCompliance(input).details.ibanValid

C8_WitnessTrue == op = "isCompliant" /\ result = TRUE

\* the errors of the report that come from the rules of a group
GroupErrors(report, group) ==
    SelectSeq(report.errors,
              LAMBDA i : \E rule \in Rules : rule.group = group /\ IssueOf(rule, i))

\* C9: ibanValid tells whether the checksum passed, fieldsValid and
\* bankingStandardsValid whether the field rules and the banking rules gave
\* no error, totalIssues the number of errors and warnings.
C9_SummaryFlags ==
    Reported =>
        /\ result.details.ibanValid <=> isValidIBAN(input.iban[1])
        /\ result.details.fieldsValid <=> GroupErrors(result, "fields") = <<>>
        /\ result.details.bankingStandardsValid <=> GroupErrors(result, "banking") = <<>>
        /\ result.details.totalIssues = Len(result.errors) + Len(result.warnings)

\* a report with a failed checksum and no field error; one with a currency
\* warning that leaves bankingStandardsValid true; one with an IBAN of wrong
\* length
C9_Witness ==
    /\ Reported
    /\ ~result.details.ibanValid
    /\ result.details.fieldsValid

C9_WitnessWarning ==
    /\ Reported
    /\ result.warnings # <<>>
    /\ result.details.bankingStandardsValid
    /\ result.details.totalIssues >= 2

C9_WitnessLength ==
    /\ Reported
    /\ ~result.details.ibanValid
    /\ ~result.details.fieldsValid
    /\ result.details.bankingStandardsValid

\* the issue has the kind and the severity of its rule
Classified(issue) ==
    \E rule \in Rules :
        IssueOf(rule, issue) /\ issue.type = rule.type /\ issue.severity = rule.severity

\* C10: every issue has the kind and severity of its rule; errors holds
\* the issues of kind error, warnings those of kind warning.
C10_Classification ==
    Reported =>
        /\ \A i \in 1..Len(result.errors) :
              Classified(result.errors[i]) /\ result.errors[i].type = "error"
        /\ \A i \in 1..Len(result.warnings) :
              Classified(result.warnings[i]) /\ result.warnings[i].type = "warning"

\* a report with an error and a warning
C10_Witness ==
    /\ Reported
    /\ result.errors # <<>>
    /\ result.warnings # <<>>

\* the errors of the report on a field with a severity
ErrorsOn(report, field, severity) ==
    SelectSeq(report.errors, LAMBDA i : i.field = field /\ i.severity = severity)

\* the IBAN, whitespace removed, fails the mod-97 test or has no check digits
BadChecksum(iban) ==
    LET cleaned == stripWhitespace(iban)
    IN  \/ Len(cleaned) < 4
        \/ Mod97(SubSeq(cleaned, 5, Len(cleaned)) \o SubSeq(cleaned, 1, 4), 0) # 1

ValidLength(iban) == Len(stripWhitespace(iban)) \in 15..34

\* C11: an IBAN of valid length with a bad checksum gets one critical error
\* on field iban and no length error; an IBAN that is too short or too long
\* gets a major error on field iban for its length, next to the critical
\* error of a bad checksum; the report is not compliant in both cases.
C11_IbanFailuresIndependent ==
    Reported =>
        /\ ValidLength(input.iban[1]) /\ BadChecksum(input.iban[1]) =>
              /\ Len(ErrorsOn(result, "iban", "critical")) = 1
              /\ ErrorsOn(result, "iban", "major") = <<>>
              /\ ~result.isCompliant
        /\ ~ValidLength(input.iban[1]) =>
              /\ Len(ErrorsOn(result, "iban", "major")) = 1
              /\ ErrorsOn(result, "iban", "major")[1].message =
                    "IBAN length must be between 15 and 34 characters"
              /\ BadChecksum(input.iban[1]) =>
                    Len(ErrorsOn(result, "iban", "critical")) = 1
              /\ ~result.isCompliant

\* a report on an IBAN that is too long and fails the checksum as well, with
\* both errors
C11_Witness ==
    /\ Reported
    /\ Len(stripWhitespace(input.iban[1])) > 34
    /\ BadChecksum(input.iban[1])
    /\ Len(ErrorsOn(result, "iban", "major")) = 1
    /\ Len(ErrorsOn(result, "iban", "critical")) = 1

\* a report on an IBAN of valid length with a bad checksum
C11_WitnessChecksum ==
    /\ Reported
    /\ ValidLength(input.iban[1]) /\ BadChecksum(input.iban[1])
    /\ Len(ErrorsOn(result, "iban", "critical")) = 1
    /\ Len(result.errors) = 1

\* the issues of a list that are on a field
OnField(issues, field) == SelectSeq(issues, LAMBDA i : i.field = field)

\* the record violates no rule other than the known-currency rule
NoOtherViolation(r) == \A rule \in Rules : rule.id # "currency" => ~Violates(rule, r)

\* C12: no issue on field currency is ever among the errors; a currency that
\* is not in the table of known codes gives at most one warning, of severity
\* minor, and leaves the report compliant when no other rule is violated.
C12_CurrencyOnlyWarns ==
    Reported =>
        /\ OnField(result.errors, "currency") = <<>>
        /\ Len(OnField(result.warnings, "currency")) <= 1
        /\ \A i \in 1..Len(OnField(result.warnings, "currency")) :
              /\ OnField(result.warnings, "currency")[i].severity = "minor"
              /\ OnField(result.warnings, "currency")[i].type = "warning"
              /\ IsDef(input.currency) /\ input.currency[1] \notin CurrencyCode
        /\ NoOtherViolation(input) => result.isCompliant

\* a compliant report on a record whose currency is an unknown code of three
\* upper-case letters, with the one warning
C12_Witness ==
    /\ Reported
    /\ IsDef(input.currency) /\ isValidCurrencyCode(input.currency[1])
    /\ input.currency[1] \notin CurrencyCode
    /\ Len(OnField(result.warnings, "currency")) = 1
    /\ result.errors = <<>>
    /\ result.isCompliant

\* the number of days of month m of year y in the Gregorian calendar
DaysInMonth(y, m) ==
    IF m = 2 THEN (IF y % 4 = 0 /\ (y % 100 # 0 \/ y % 400 = 0) THEN 29 ELSE 28)
    ELSE IF m \in {4, 6, 9, 11} THEN 30 ELSE 31

\* the date grammar: YYYY-MM-DD naming a day of the calendar
RealDate(s) ==
    /\ MatchesDatePattern(s)
    /\ parseInt(SubSeq(s, 6, 7)) \in 1..12
    /\ parseInt(SubSeq(s, 9, 10)) \in
          1..DaysInMonth(parseInt(SubSeq(s, 1, 4)), parseInt(SubSeq(s, 6, 7)))

\* validateInput has run on a record with a dueDate that breaks none of the
\* rules before the date rule
DateRuleReached ==
    /\ op = "validateInput"
    /\ Truthy(input.dueDate)
    /\ \A i \in 1..13 : ~BreaksRule(i, input, tz)

\* C13: in every time zone of the host, validate accepts a present dueDate
\* exactly when it is YYYY-MM-DD and names a real calendar date, and raises
\* the due-date ValidationError otherwise.
C13_RealDatesAccepted ==
    DateRuleReached =>
        IF RealDate(input.dueDate[1])
        THEN result.kind = "ok"
        ELSE /\ result.kind = "ValidationError"
             /\ result.message = "Due date must be in ISO 8601 format (YYYY-MM-DD)"

\* C14: checkCompliance reports one error of severity major on field
\* dueDate exactly when a present dueDate is not YYYY-MM-DD or names no real
\* calendar date.
C14_DateGrammarReported ==
    Reported /\ Truthy(input.dueDate) =>
        /\ Len(OnField(AllIssues(result), "dueDate")) =
              (IF RealDate(input.dueDate[1]) THEN 0 ELSE 1)
        /\ ~RealDate(input.dueDate[1]) =>
              /\ Len(ErrorsOn(result, "dueDate", "major")) = 1
              /\ ~result.isCompliant

\* validateInput has run on a record with a currency that breaks none of
\* the rules before the currency rule
CurrencyRuleReached ==
    /\ op = "validateInput"
    /\ IsDef(input.currency)
    /\ \A i \in 1..5 : ~BreaksRule(i, input, tz)

\* validateInput has raised the currency error, which carries the code
CurrencyRejected ==
    /\ result.kind = "ValidationError"
    /\ result.message = "Invalid currency code: "
    /\ result.detail = input.currency

C15_WitnessRejected ==
    /\ CurrencyRuleReached
    /\ Len(input.currency[1]) = 4
    /\ CurrencyRejected

\* a decoding operation has run on a readable image in which the detector
\* finds no QR code
QRFreeDecoded ==
    /\ op \in {"decodeForeign", "decodeGenerated", "checkQRCompliance"}
    /\ scanned # None
    /\ scanned[1].readable
    /\ scanned[1].qr = None

\* the messages that contain "No QR code found"
NoQRCodeFound == {"No QR code found in image"}

\* C16: decoding an image without a QR code raises the DecodingError "No QR
\* code found", as thrown, not wrapped into the error "Failed to read image
\* or extract QR code", and returns no record.
C16_NotFoundNotWrapped ==
    QRFreeDecoded =>
        /\ result.kind = "DecodingError"
        /\ result.message \in NoQRCodeFound
        /\ result.message # "Failed to read image or extract QR code"
        /\ result.cause = None
        /\ result.value = None
        /\ calls = <<"Jimp.read", "jsQR">>

\* decodePayBySquare has run on a blank PNG
C16_Witness ==
    /\ op = "decodeForeign"
    /\ scanned = Some(BlankPng)
    /\ result.kind = "DecodingError"
    /\ result.message \in NoQRCodeFound

\* the stages of generation, in order
GenerationStages == <<"validateInput", "transformToDataModel", "encode", "QRCode.toBuffer">>

IsPrefix(p, q) == Len(p) <= Len(q) /\ SubSeq(q, 1, Len(p)) = p

Called(step) == \E i \in 1..Len(calls) : calls[i] = step

\* C17: generation runs validation, then the construction of the data model
\* and the codec, then the renderer.  A record that breaks a rule raises
\* ValidationError with neither codec nor renderer called; a codec fault
\* raises EncodingError with the fault as cause and the renderer not called;
\* a renderer fault raises GenerationError with the fault as cause; a buffer
\* is returned only when the three stages succeeded.
C17_StageOrder ==
    op = "generatePayBySquare" =>
        /\ IsPrefix(calls, GenerationStages)
        /\ BrokenRules(input, tz) # {} =>
              /\ result.kind = "ValidationError"
              /\ ~Called("encode") /\ ~Called("QRCode.toBuffer")
              /\ encoded = None
              /\ image = None
        /\ BrokenRules(input, tz) = {} /\ fault = "codec" =>
              /\ result.kind = "EncodingError"
              /\ result.cause = Some(Thrown("encode"))
              /\ Called("encode") /\ ~Called("QRCode.toBuffer")
              /\ image = None
        /\ BrokenRules(input, tz) = {} /\ fault = "renderer" =>
              /\ result.kind = "GenerationError"
              /\ result.cause = Some(Thrown("QRCode.toBuffer"))
              /\ Called("QRCode.toBuffer")
              /\ image = None
        /\ image # None =>
              /\ BrokenRules(input, tz) = {} /\ fault = "none"
              /\ result.kind = "ok"
              /\ calls = GenerationStages

\* generation has stopped at a codec fault; at a renderer fault; has
\* returned a buffer
C17_Witness ==
    /\ op = "generatePayBySquare"
    /\ fault = "codec"
    /\ result.kind = "EncodingError"
    /\ calls = <<"validateInput", "transformToDataModel", "encode">>

C17_WitnessRenderer ==
    /\ op = "generatePayBySquare"
    /\ fault = "renderer"
    /\ result.kind = "GenerationError"

C17_WitnessBuffer ==
    /\ op = "generatePayBySquare"
    /\ image # None
    /\ IsDef(input.amount)

\* the thirteen fields of the comparison, in order
ComparedFields ==
    <<"iban", "beneficiaryName", "amount", "currency", "variableSymbol", "constantSymbol",
      "specificSymbol", "paymentNote", "dueDate", "swift", "originatorReference",
      "beneficiaryAddress.street", "beneficiaryAddress.city">>

\* the value of a compared field in a record
ValueAt(r, f) ==
    IF f = "beneficiaryAddress.street" THEN StreetOf(r)
    ELSE IF f = "beneficiaryAddress.city" THEN CityOf(r)
    ELSE r[f]

\* the comparison rule: a difference unless both values are absent or the
\* two are equal
RuleDifference(f, o, d) ==
    IF ~(Nullish(o) /\ Nullish(d)) /\ o # d THEN <<Difference(f, o, d)>> ELSE <<>>

\* the differences that the rule gives for fields i.. of the list
RECURSIVE RuleDifferences(_, _, _)
RuleDifferences(i, original, decoded) ==
    IF i > Len(ComparedFields) THEN <<>>
    ELSE RuleDifference(ComparedFields[i], ValueAt(original, ComparedFields[i]),
                        ValueAt(decoded, ComparedFields[i]))
            \o RuleDifferences(i + 1, original, decoded)

\* C18: the differences of a round trip are those that the comparison rule
\* gives for the thirteen fields, in their order, the two address sub-fields
\* included; isLossless tells that there is none.
C18_ThirteenFieldsOneRule ==
    RoundTripReturned =>
        /\ result.value[1].differences =
              RuleDifferences(1, result.value[1].input, result.value[1].decoded)
        /\ result.value[1].isLossless <=> result.value[1].differences = <<>>

\* the external collaborators: codec, renderer, image reader, detector
Collaborators == {"encode", "QRCode.toBuffer", "Jimp.read", "jsQR", "bysquareDecode"}

TimesCalled(step) == Len(SelectSeq(calls, LAMBDA c : c = step))

\* the steps of decoding, in order
DecodingStages == <<"Jimp.read", "jsQR", "bysquareDecode", "transformFromDataModel">>

\* C20: when generation fails inside verifyRoundTrip the caller gets the
\* error that generatePayBySquare raised and no step of decoding or of the
\* comparison has run; when decoding fails inside verifyRoundTrip or
\* checkQRCompliance the caller gets the error that decodePayBySquare raised
\* and neither the comparison nor the compliance evaluation has run; no
\* report is returned, and no collaborator is called twice in a call.
C20_NoCatchNoRetry ==
    /\ op = "verifyRoundTrip" =>
          LET g == generatePayBySquare(input, tz, fault)
          IN  /\ g.result.kind # "ok" =>
                    /\ result = g.result
                    /\ calls = g.calls
                    /\ \A i \in 1..Len(DecodingStages) : ~Called(DecodingStages[i])
                    /\ ~Called("compareField")
              /\ g.result.kind = "ok"
                   /\ decodePayBySquare(g.buffer[1], fault).result.kind # "ok" =>
                    /\ result = decodePayBySquare(g.buffer[1], fault).result
                    /\ result.kind = "DecodingError"
                    /\ ~Called("compareField")
              /\ Called("compareField") <=> result.kind = "ok"
    /\ op = "checkQRCompliance" =>
          LET d == decodePayBySquare(scanned[1], fault)
          IN  /\ d.result.kind # "ok" =>
                    /\ result = d.result
                    /\ result.kind = "DecodingError"
              /\ Called("checkCompliance") <=> result.kind = "ok"
    /\ op \in {"verifyRoundTrip", "checkQRCompliance"} =>
          \A c \in Collaborators : TimesCalled(c) <= 1

\* decoding has failed inside verifyRoundTrip; generation has failed inside
\* verifyRoundTrip; decoding has failed inside checkQRCompliance
C20_Witness ==
    /\ op = "verifyRoundTrip"
    /\ result.kind = "DecodingError"
    /\ Called("QRCode.toBuffer") /\ Called("jsQR")

C20_WitnessGeneration ==
    /\ op = "verifyRoundTrip"
    /\ result.kind = "GenerationError"
    /\ result.cause = Some(Thrown("QRCode.toBuffer"))

C20_WitnessCompliance ==
    /\ op = "checkQRCompliance"
    /\ result.kind = "DecodingError"
    /\ ~Called("checkCompliance")

\* ------------------------------------------------------------------------
\* C19: however the calls in flight are interleaved at their awaits, a call
\* that has ended has returned the result, or raised the error, that the
\* same call produces when it is the only call in flight; in particular the
\* failure of another call has not changed it.
\* ------------------------------------------------------------------------
C19_CallsIndependent ==
    \A c \in CallIds :
        running[c].pc = "done" =>
            running[c].outcome = Some(Alone(running[c].request[1], tz))

\* a verifyRoundTrip call that returned its report after a call interleaved
\* with it had failed
C19_Witness ==
    \E c, d \in CallIds :
        /\ c # d
        /\ running[c].pc = "done"
        /\ running[c].interleaved
        /\ running[c].request[1].op = "verifyRoundTrip"
        /\ running[c].outcome[1].kind = "ok"
        /\ running[d].pc = "done"
        /\ running[d].request[1].op \in {"generatePayBySquare", "decodePayBySquare"}
        /\ running[d].request[1] # running[c].request[1]
        /\ \/ /\ running[d].request[1].op = "decodePayBySquare"
              /\ running[d].outcome[1].kind = "DecodingError"
           \/ /\ running[d].request[1].op = "generatePayBySquare"
              /\ running[d].outcome[1].result.kind = "GenerationError"

\* ------------------------------------------------------------------------
\* C21: when checkQRCompliance is applied to the image that
\* generatePayBySquare produced for a record that validateInput accepts and
\* checkCompliance finds compliant, it returns a report with isCompliant
\* true and no errors.
\* ------------------------------------------------------------------------
\* checkQRCompliance has scanned the image generated for the record
ScannedGenerated ==
    /\ op = "checkQRCompliance"
    /\ validateInput(input, tz).kind = "ok"
    /\ scanned = Some(toBuffer(encode(transformToDataModel(input), TRUE)))

C21_CompliancePreserved ==
    (ScannedGenerated /\ checkCompliance(input).isCompliant) =>
        /\ result.kind = "ok"
        /\ result.value[1].isCompliant
        /\ result.value[1].errors = <<>>

\* a compliant record with an amount, a lower-case currency and a BIC, read
\* back from its image
C21_Witness ==
    /\ ScannedGenerated
    /\ checkCompliance(input).isCompliant
    /\ IsDef(input.amount)
    /\ \/ input.currency = Some(<<"e", "u", "r">>)
       \/ Truthy(input.swift)
    /\ result.kind = "ok"
    /\ result.value[1].isCompliant

\* ------------------------------------------------------------------------
\* C22: every tool call ends in a returned response and no error leaves the
\* handler: an unknown tool name, arguments that the schema rejects and an
\* error raised by the library are returned as success false with the message
\* of the error and isError set, and every other call as success true.
\* ------------------------------------------------------------------------
SchemaRejects ==
    /\ tool[1].name \in ToolNames \ {"decode_paybysquare"}
    /\ tool[1].arguments # None
    /\ \/ tool[1].arguments[1].payment = None
       \/ ~PayBySquareInputSchema(tool[1].arguments[1].payment[1], tool[1].finiteOnly)

\* the error that the library raises in the call, if it reaches the library
\* and the library raises one
LibraryError ==
    IF tool[1].arguments = None \/ tool[1].name \notin ToolNames \/ SchemaRejects THEN None
    ELSE IF tool[1].name = "generate_paybysquare"
    THEN LET g == generatePayBySquare(tool[1].arguments[1].payment[1], tz, fault).result
         IN  IF g.kind = "ok" THEN None ELSE Some(g)
    ELSE IF tool[1].name = "verify_roundtrip"
    THEN LET v == verifyRoundTrip(tool[1].arguments[1].payment[1], tz, fault).result
         IN  IF v.kind = "ok" THEN None ELSE Some(v)
    ELSE IF tool[1].name = "decode_paybysquare" /\ tool[1].arguments[1].imageBase64 # None
    THEN LET d == decodePayBySquare(tool[1].arguments[1].imageBase64[1], fault).result
         IN  IF d.kind = "ok" THEN None ELSE Some(d)
    ELSE None

ToolFails ==
    \/ tool[1].name \notin ToolNames
    \/ tool[1].arguments = None
    \/ SchemaRejects
    \/ tool[1].name = "decode_paybysquare" /\ tool[1].arguments[1].imageBase64 = None
    \/ LibraryError # None

C22_AlwaysResponds ==
    op = "callTool" =>
        /\ result.escaped = None
        /\ result.success = ~ToolFails
        /\ result.success => ~result.isError /\ result.error = None /\ result.body # None
        /\ ~result.success => result.isError /\ result.error # None /\ result.body = None
        /\ LibraryError # None =>
              /\ result.error[1][1] = LibraryError[1].message
              /\ LibraryError[1].kind = "ValidationError" =>
                    result.error[1][2] = LibraryError[1].detail
        /\ tool[1].name \notin ToolNames =>
              result.error = Some(<<"Unknown tool: ", Some(tool[1].name)>>)

\* a payment that the schema takes and the validator rejects, answered with
\* the message of the ValidationError
C22_Witness ==
    /\ op = "callTool"
    /\ tool[1].name \in {"generate_paybysquare", "verify_roundtrip"}
    /\ ~SchemaRejects
    /\ LibraryError # None
    /\ LibraryError[1].kind = "ValidationError"
    /\ ~result.success
    /\ result.isError

\* an unknown tool name answered with an error response
C22_WitnessUnknown ==
    /\ op = "callTool"
    /\ tool[1].name \notin ToolNames
    /\ ~result.success

\* a payment that the schema rejects
C22_WitnessSchema ==
    /\ op = "callTool"
    /\ SchemaRejects
    /\ ~result.success

\* a call that succeeds
C22_WitnessSuccess ==
    /\ op = "callTool"
    /\ tool[1].name = "verify_roundtrip"
    /\ result.success

\* a collaborator failing under a tool call
C22_WitnessCollaborator ==
    /\ op = "callTool"
    /\ LibraryError # None
    /\ LibraryError[1].kind \in {"EncodingError", "GenerationError", "DecodingError"}
    /\ ~result.success

\* ------------------------------------------------------------------------
\* C23: the payment that transformToDataModel builds has a currencyCode
\* exactly when it has an amount, which is exactly when the amount of the
\* record is defined; a currency without an amount is not emitted, and an
\* amount without a currency is emitted with the currencyCode EUR.
\* ------------------------------------------------------------------------
\* the record can be handed to the adapter: its iban is a string
Transformable == Len(input.iban) = 1

C23_AmountCurrencyCoupled ==
    Transformable =>
        LET payment == transformToDataModel(input).payments[1]
        IN  /\ IsDef(payment.currencyCode) <=> IsDef(payment.amount)
            /\ IsDef(payment.amount) <=> IsDef(input.amount)
            /\ payment.amount = input.amount
            /\ (IsDef(input.amount) /\ input.currency = None) =>
                  payment.currencyCode = Some(EUR)
            /\ (IsDef(input.amount) /\ Truthy(input.currency)) =>
                  payment.currencyCode = Some(toUpperCase(input.currency[1]))
            /\ encoded # None /\ op = "generatePayBySquare" =>
                  encoded[1].payments[1] = payment

\* a generated record with an amount and no currency
C23_Witness ==
    /\ op = "generatePayBySquare"
    /\ encoded # None
    /\ IsDef(input.amount)
    /\ input.currency = None
    /\ encoded[1].payments[1].currencyCode = Some(EUR)

\* a generated record with a currency and no amount
C23_WitnessCurrencyAlone ==
    /\ op = "generatePayBySquare"
    /\ encoded # None
    /\ input.amount = None
    /\ Truthy(input.currency)
    /\ encoded[1].payments[1].currencyCode = None


\* a null or empty-string entry
Placeholder(o) == o = Null \/ o = Some(<<>>)

\* the optional scalar fields of a record whose entry of the payment depends
\* on nothing else, each with that entry
ScalarEntries(record, payment) ==
    <<<<record.amount, payment.amount>>,
      <<record.variableSymbol, payment.variableSymbol>>,
      <<record.constantSymbol, payment.constantSymbol>>,
      <<record.specificSymbol, payment.specificSymbol>>,
      <<record.paymentNote, payment.paymentNote>>,
      <<record.dueDate, payment.paymentDueDate>>,
      <<record.swift, payment.bankAccounts[1].bic>>,
      <<record.originatorReference, payment.originatorsReferenceInformation>>>>

\* the entries of a payment that hold a text or a number, but for the
\* currency code
EntriesOf(payment) ==
    <<payment.amount, payment.variableSymbol,
      payment.constantSymbol, payment.specificSymbol, payment.paymentNote,
      payment.paymentDueDate, payment.originatorsReferenceInformation,
      payment.bankAccounts[1].iban, payment.bankAccounts[1].bic>>
    \o (IF IsDef(payment.beneficiary)
        THEN <<payment.beneficiary[1].name, payment.beneficiary[1].street,
               payment.beneficiary[1].city>>
        ELSE <<>>)

\* no absent field has an entry and no entry but the currency code is a
\* placeholder
ScalarsOmitted(record, payment) ==
    /\ \A i \in 1..Len(ScalarEntries(record, payment)) :
          ScalarEntries(record, payment)[i][1] = None =>
              ScalarEntries(record, payment)[i][2] = None
    /\ (record.currency = None /\ record.amount = None) => payment.currencyCode = None
    /\ \A i \in 1..Len(EntriesOf(payment)) : ~Placeholder(EntriesOf(payment)[i])

\* generation handed a data model to the codec
Transformed == op = "generatePayBySquare" /\ encoded # None

\* C24: the data model that transformToDataModel builds has no placeholder:
\* an optional scalar field absent from the record is absent from the payment
\* (the currency, which defaults to EUR beside an amount, when the amount is
\* absent too), no entry is null or the empty string, the IBAN has no
\* whitespace left, and the beneficiary is there only with a name, a street
\* or a city.
C24_NoPlaceholder ==
    Transformed =>
        LET payment == encoded[1].payments[1]
        IN  /\ ScalarsOmitted(input, payment)
            /\ ~Placeholder(payment.currencyCode)
            /\ payment.bankAccounts[1].iban = Some(stripWhitespace(input.iban[1]))
            /\ \A i \in 1..Len(payment.bankAccounts[1].iban[1]) :
                  payment.bankAccounts[1].iban[1][i] \notin Whitespace
            /\ IsDef(payment.beneficiary) =>
                  \/ Truthy(payment.beneficiary[1].name)
                  \/ Truthy(payment.beneficiary[1].street)
                  \/ Truthy(payment.beneficiary[1].city)

\* C24 without the currency: every clause above holds of the entries other
\* than currencyCode
C24_NoPlaceholderButCurrency ==
    Transformed =>
        LET payment == encoded[1].payments[1]
        IN  /\ ScalarsOmitted(input, payment)
            /\ payment.bankAccounts[1].iban = Some(stripWhitespace(input.iban[1]))
            /\ IsDef(payment.beneficiary) =>
                  \/ Truthy(payment.beneficiary[1].name)
                  \/ Truthy(payment.beneficiary[1].street)
                  \/ Truthy(payment.beneficiary[1].city)

\* a record with an amount and the currency '' was handed to the codec with
\* the entry currencyCode: ''
C24_EmptyCurrencyEmitted ==
    /\ Transformed
    /\ IsDef(input.amount)
    /\ input.currency = Some(<<>>)
    /\ encoded[1].payments[1].currencyCode = Some(<<>>)


\* decodePayBySquare was called on an image that holds PayBySquare data
DecodedData ==
    /\ op \in {"decodeGenerated", "decodeForeign"}
    /\ scanned[1].readable
    /\ scanned[1].qr # None
    /\ scanned[1].qr[1].payBySquare

\* the data model that the codec read from the image
ScannedModel == bysquareDecode(scanned[1].qr[1])

\* the data model has no payment; its first payment has no bank account with
\* an IBAN
NoPayment(data) == Len(data.payments) = 0

NoIban(data) ==
    /\ ~NoPayment(data)
    /\ \/ Len(data.payments[1].bankAccounts) = 0
       \/ ~Truthy(data.payments[1].bankAccounts[1].iban)

\* C25: decoding a data model without a payment raises DecodingError "No
\* payment data found in QR code", one whose first payment has no bank account
\* with an IBAN raises DecodingError "No IBAN found in payment data", neither
\* returns a record; every other data model gives a record with a non-empty
\* iban; and whatever decodePayBySquare raises is a DecodingError.
C25_DecodeFailures ==
    /\ op \in {"decodeGenerated", "decodeForeign"} => result.kind \in {"ok", "DecodingError"}
    /\ DecodedData =>
          /\ NoPayment(ScannedModel) =>
                /\ result.kind = "DecodingError"
                /\ result.message = "No payment data found in QR code"
                /\ result.value = None
          /\ NoIban(ScannedModel) =>
                /\ result.kind = "DecodingError"
                /\ result.message = "No IBAN found in payment data"
                /\ result.value = None
          /\ ~NoPayment(ScannedModel) /\ ~NoIban(ScannedModel) =>
                /\ result.kind = "ok"
                /\ Truthy(result.value[1].iban)

C25_Witness ==
    /\ DecodedData
    /\ NoIban(ScannedModel)
    /\ result.message = "No IBAN found in payment data"

C25_WitnessNoPayment ==
    /\ DecodedData
    /\ NoPayment(ScannedModel)
    /\ result.message = "No payment data found in QR code"

C25_WitnessRecord ==
    /\ DecodedData
    /\ result.kind = "ok"
    /\ Truthy(result.value[1].iban)

C25_WitnessUnreadable ==
    /\ op = "decodeForeign"
    /\ ~scanned[1].readable
    /\ result.kind = "DecodingError"


\* the record's IBAN has embedded whitespace and, without it, is a valid IBAN
SpacedValidIban ==
    /\ Len(input.iban) = 1
    /\ input.iban[1] # stripWhitespace(input.iban[1])
    /\ isValidIBAN(stripWhitespace(input.iban[1]))

\* C26: a record that validateInput accepts and whose IBAN is a valid IBAN
\* written with spaces is reported by checkCompliance with ibanValid true and
\* without an error on field iban, and isCompliant answers for it what it
\* answers for the record with the spaces removed.
C26_WhitespaceUniform ==
    (SpacedValidIban /\ validateInput(input, tz).kind = "ok") =>
        /\ Reported =>
              /\ result.details.ibanValid
              /\ OnField(result.errors, "iban") = <<>>
        /\ op = "isCompliant" =>
              result = isCompliant([input EXCEPT !.iban = Some(stripWhitespace(input.iban[1]))])

\* checkCompliance reported a failed checksum for a record that validateInput
\* accepts and whose IBAN is valid once its spaces are removed
C26_SpacedIbanRejected ==
    /\ Reported
    /\ SpacedValidIban
    /\ validateInput(input, tz).kind = "ok"
    /\ ~result.details.ibanValid
    /\ Len(ErrorsOn(result, "iban", "critical")) = 1
    /\ ~result.isCompliant


\* the operations that take a payment record
RecordOperations ==
    {"validateInput", "checkCompliance", "isCompliant", "generatePayBySquare",
     "verifyRoundTrip"}

\* C27: validateInput, checkCompliance, isCompliant, generatePayBySquare and
\* verifyRoundTrip leave the record passed to them as it was, and the input
\* of a round-trip report is that record, field for field.
C27_InputNotMutated ==
    /\ [][op' \in RecordOperations => input' = input]_vars
    /\ [](RoundTripReturned =>
            /\ result.value[1].input = input
            /\ \A f \in Fields : result.value[1].input[f] = input[f])

\* a report on a record whose IBAN came back without its spaces: the report's
\* input still has them
C27_Witness ==
    /\ RoundTripReturned
    /\ input.iban = Some(SpacedIban)
    /\ result.value[1].decoded.iban = Some(stripWhitespace(SpacedIban))
    /\ result.value[1].input.iban = Some(SpacedIban)


\* the rule groups, one flag of the summary for each
Groups == {RuleTable[i].group : i \in 1..Len(RuleTable)}

Flag(report, group) ==
    CASE group = "iban"    -> report.details.ibanValid
      [] group = "fields"  -> report.details.fieldsValid
      [] group = "banking" -> report.details.bankingStandardsValid

\* the groups with a rule that the issue reports a violation of
GroupsOf(issue) == {rule.group : rule \in {r \in Rules : IssueOf(r, issue)}}

\* C28: in a report of checkCompliance, isCompliant is the conjunction of
\* ibanValid, fieldsValid and bankingStandardsValid; every error belongs to
\* one rule group, whose flag is false, and a flag is false only if the report
\* has an error of its group.
C28_FlagsAccountForErrors ==
    Reported =>
        /\ result.isCompliant <=> (/\ result.details.ibanValid
                                   /\ result.details.fieldsValid
                                   /\ result.details.bankingStandardsValid)
        /\ \A i \in 1..Len(result.errors) : Cardinality(GroupsOf(result.errors[i])) = 1
        /\ \A g \in Groups :
              ~Flag(result, g) <=> \E i \in 1..Len(result.errors) : g \in GroupsOf(result.errors[i])

\* a report with errors of two groups: their two flags are false, the third
\* is true
C28_Witness ==
    /\ Reported
    /\ Len(result.errors) = 2
    /\ ~result.details.ibanValid
    /\ ~result.details.bankingStandardsValid
    /\ result.details.fieldsValid
    /\ ~result.isCompliant

\* a report with a warning and no error: the three flags are true
C28_WitnessWarning ==
    /\ Reported
    /\ result.warnings # <<>>
    /\ result.details.bankingStandardsValid
    /\ result.isCompliant


\* checkCompliance reported on a record that validateInput accepts
ReportedOnAccepted == Reported /\ validateInput(input, tz).kind = "ok"

\* C29: for a record that validateInput accepts, checkCompliance reports
\* fieldsValid true and no issue of a field-format rule (IBAN length, name,
\* symbols, note, address, due date).
C29_ValidatorCoversFieldFormats ==
    ReportedOnAccepted =>
        /\ result.details.fieldsValid
        /\ \A rule \in Rules : rule.group = "fields" => IssuesOf(rule, result) = 0

\* an accepted record at the limits of the field rules, reported with
\* fieldsValid true
C29_Witness ==
    /\ ReportedOnAccepted
    /\ \/ input.paymentNote = Some(Rep("y", 140))
       \/ input.beneficiaryName = Some(Rep("x", 70))
       \/ input.iban = Some(SpacedIban)
    /\ result.details.fieldsValid

\* a rejected record reported with a field-format error
C29_WitnessRejected ==
    /\ Reported
    /\ validateInput(input, tz).kind # "ok"
    /\ ~result.details.fieldsValid


\* the compliance engine passed the record
Passed ==
    \/ Reported /\ result.isCompliant
    \/ op = "isCompliant" /\ result = TRUE

\* C30: a record for which checkCompliance reports isCompliant true, or
\* isCompliant returns true, is accepted by validateInput.
C30_CompliantImpliesValid ==
    Passed => validateInput(input, tz).kind = "ok"

\* a compliant record whose currency is not three letters: validateInput
\* rejects it
C30_CompliantBadCurrency ==
    /\ Passed
    /\ input.currency \in {Some(<<"E", "U", "R", "O">>), Some(<<"E", "1", "R">>)}
    /\ validateInput(input, tz).message = "Invalid currency code: "

\* a compliant record with a blank name, or with a due date that is no
\* calendar date: validateInput rejects it
C30_CompliantBlankName ==
    /\ Passed
    /\ input.beneficiaryName = Some(<<" ">>)
    /\ validateInput(input, tz).message = "Beneficiary name is required"

C30_CompliantUnrealDate ==
    /\ Passed
    /\ tz = 0
    /\ Truthy(input.dueDate)
    /\ validateInput(input, tz).message = "Due date must be in ISO 8601 format (YYYY-MM-DD)"

====
